---- MODULE Spec2Model ----
(***************************************************************************)
(* IAM anomaly detection pipeline (iam-anomaly-saas):                      *)
(*   events -> extract_user_features -> AnomalyEngine.detect               *)
(*          -> calculate_risk_score -> rank_users                          *)
(* Scores are whole points: every base score, the ML bonus and the         *)
(* consecutive-failure penalty are integral floats, so sums, the cap and   *)
(* round(x, 2) are exact on them.  ML anomaly scores are in abstract       *)
(* units where only the order relative to the threshold matters.           *)
(***************************************************************************)
EXTENDS Integers, Sequences, FiniteSets, TLC

VARIABLES
    pc,            \* position of the pipeline run
    events,        \* list[CloudTrailEvent]: the parsed batch
    sklearn,       \* whether "from sklearn ... import" succeeds
    ml_threshold,  \* AnomalyEngine.ml_threshold
    features,      \* list[UserFeatures]
    results,       \* list[DetectionResult]
    risk_scores,   \* list[RiskScore]
    ranked,        \* result of rank_users
    vectors,       \* the matrix fit_predict builds with features_to_vector
    session_store, \* core/session_store.py: session_id -> list[CloudTrailEvent]
    sessions,      \* table analysis_sessions: session_id -> row
    records,       \* table detection_records, in insertion order
    response,      \* the last HTTP response of the API
    document,      \* the JSON document or file handed to the parser
    parsed,        \* what parse_raw_json / parse_file returned or raised
    event_counts,  \* one action-name histogram per account
    event_name_entropy,  \* the entropy _entropy gives each histogram
    mvp_output     \* what detect of iam-mvp/detector.py returns for the batch

api == <<session_store, sessions, records, response>>

side == <<document, parsed, event_counts, event_name_entropy, mvp_output>>

vars == <<pc, events, sklearn, ml_threshold, features, results, risk_scores, ranked,
          vectors, session_store, sessions, records, response,
          document, parsed, event_counts, event_name_entropy, mvp_output>>

----------------------------------------------------------------------------
(* Bounds of the model *)

MaxEvents == 3      \* events per batch
MaxAccounts == 3    \* feature summaries handed to detect directly
MaxTotal == 101     \* largest total_events of a feature summary
MaxRun == 11        \* events of the account in the failure-run batches
MaxSessions == 2    \* uploads the API accepts in a run
MaxRecords == 2     \* rows of detection_records in a run
MaxHistogramTotal == 8    \* events of an account in an action-name histogram

Accounts == <<"alice", "bob", "charlie", "dave", "erin">>

----------------------------------------------------------------------------
(* Generic helpers *)

Min(a, b) == IF a <= b THEN a ELSE b

Max(a, b) == IF a >= b THEN a ELSE b

Range(s) == {s[i] : i \in 1..Len(s)}

RECURSIVE SumSeq(_)
SumSeq(s) == IF s = <<>> THEN 0 ELSE Head(s) + SumSeq(Tail(s))

\* number of positions of s whose element satisfies P
Count(s, P(_)) == Cardinality({i \in 1..Len(s) : P(s[i])})

\* all sequences over S of length at most n
SeqsUpTo(S, n) == UNION {[1..k -> S] : k \in 0..n}

\* a Python value is truthy; None and "" are both modelled as ""
Truthy(s) == s # ""

----------------------------------------------------------------------------
(* datetime: wall is the wall-clock reading in whole hours since an epoch, *)
(* aware tells whether tzinfo is set, off is the UTC offset in hours.      *)

Aware(wall, off) == [wall |-> wall, aware |-> TRUE, off |-> off]

Naive(wall) == [wall |-> wall, aware |-> FALSE, off |-> 0]

\* datetime.hour: the wall-clock hour, whatever tzinfo says
Hour(dt) == dt.wall % 24

\* the instant an aware datetime denotes, in hours UTC; naive read as UTC
Instant(dt) == dt.wall - dt.off

\* datetime.__lt__ is defined between two aware or two naive values only
Comparable(a, b) == a.aware = b.aware

\* a <= b on comparable datetimes: aware ones compare by instant
TimeLeq(a, b) == IF a.aware THEN Instant(a) <= Instant(b) ELSE a.wall <= b.wall

----------------------------------------------------------------------------
(* parser.py and feature_engineer.py: the classification of event names *)

HIGH_RISK_EVENTS == {"CreateUser", "DeleteUser", "AttachUserPolicy", "DetachUserPolicy",
                     "PutUserPolicy", "DeleteUserPolicy", "CreateRole", "DeleteRole",
                     "AttachRolePolicy", "DetachRolePolicy", "PutRolePolicy",
                     "DeleteRolePolicy", "CreateAccessKey", "DeleteAccessKey",
                     "UpdateAccessKey", "CreateLoginProfile", "UpdateLoginProfile",
                     "DeleteLoginProfile", "AssumeRole", "AssumeRoleWithSAML",
                     "AssumeRoleWithWebIdentity", "GetSessionToken", "ConsoleLogin",
                     "PasswordData", "AuthorizeSecurityGroupIngress",
                     "AuthorizeSecurityGroupEgress", "CreateVpc",
                     "ModifyInstanceAttribute"}

ADMIN_EVENTS == {"AttachUserPolicy", "AttachRolePolicy", "AttachGroupPolicy",
                 "PutUserPolicy", "PutRolePolicy", "PutGroupPolicy",
                 "CreateRole", "CreateUser", "CreateAccessKey",
                 "AssumeRole", "GetSessionToken"}

\* parse_event: the CloudTrailEvent fields the pipeline reads
CloudTrailEvent(arn, t, name, err, mfa, ip, region) ==
    [user_arn |-> arn, event_time |-> t, event_name |-> name, error_code |-> err,
     mfa_used |-> mfa, source_ip |-> ip, aws_region |-> region,
     is_high_risk |-> name \in HIGH_RISK_EVENTS]

----------------------------------------------------------------------------
(* feature_engineer.py *)

is_off_hours(dt) ==
    LET d == IF ~dt.aware THEN [dt EXCEPT !.aware = TRUE, !.off = 0] ELSE dt
        hour == Hour(d)
    IN  hour >= 22 \/ hour < 6

\* sorted(events, key=lambda e: e.event_time): stable, ascending.
\* InsertByTime puts e behind every element that is not later than it.
RECURSIVE InsertByTime(_, _)
InsertByTime(e, s) ==
    IF s = <<>> THEN <<e>>
    ELSE IF TimeLeq(Head(s).event_time, e.event_time)
         THEN <<Head(s)>> \o InsertByTime(e, Tail(s))
         ELSE <<e>> \o s

RECURSIVE SortedByTime(_)
SortedByTime(s) ==
    IF s = <<>> THEN <<>>
    ELSE InsertByTime(s[Len(s)], SortedByTime(SubSeq(s, 1, Len(s) - 1)))

\* mutant: current_seq is never reset, so the scan counts all failures
RECURSIVE FailureScanNoReset(_, _, _)
FailureScanNoReset(s, current_seq, max_seq) ==
    IF s = <<>> THEN max_seq
    ELSE IF Truthy(Head(s).error_code)
         THEN FailureScanNoReset(Tail(s), current_seq + 1, Max(max_seq, current_seq + 1))
         ELSE FailureScanNoReset(Tail(s), current_seq, max_seq)

\* the scan of _max_consecutive_failures over an already ordered list
RECURSIVE FailureScan(_, _, _)
FailureScan(s, current_seq, max_seq) ==
    IF s = <<>> THEN max_seq
    ELSE IF Truthy(Head(s).error_code)
         THEN FailureScan(Tail(s), current_seq + 1, Max(max_seq, current_seq + 1))
         ELSE FailureScan(Tail(s), 0, max_seq)

\* mutant: the scan runs over the events in batch order, without the sort
max_consecutive_failures_unsorted(evts) == FailureScan(evts, 0, 0)

max_consecutive_failures(evts) == FailureScan(SortedByTime(evts), 0, 0)

\* the keys of user_events in insertion order (first appearance in the batch)
RECURSIVE ArnOrder(_, _)
ArnOrder(evts, seen) ==
    IF evts = <<>> THEN seen
    ELSE IF Head(evts).user_arn \in Range(seen)
         THEN ArnOrder(Tail(evts), seen)
         ELSE ArnOrder(Tail(evts), Append(seen, Head(evts).user_arn))

\* mutant: every account is given the events of the whole batch
EventsOfAnyAccount(evts, arn) == evts

\* user_events[arn]: the account's events in batch order
EventsOf(evts, arn) == SelectSeq(evts, LAMBDA e : e.user_arn = arn)

UserFeatures(arn, user_evts) ==
    [user_arn |-> arn,
     total_events |-> Len(user_evts),
     unique_event_names |-> Cardinality({e.event_name : e \in Range(user_evts)}),
     unique_ips |-> Cardinality({e.source_ip : e \in {x \in Range(user_evts) : Truthy(x.source_ip)}}),
     high_risk_event_count |-> Count(user_evts, LAMBDA e : e.is_high_risk),
     failed_event_count |-> Count(user_evts, LAMBDA e : Truthy(e.error_code)),
     off_hours_event_count |-> Count(user_evts, LAMBDA e : is_off_hours(e.event_time)),
     consecutive_failures |-> max_consecutive_failures(user_evts),
     mfa_missing_high_risk |-> Count(user_evts, LAMBDA e : e.is_high_risk /\ ~e.mfa_used),
     admin_action_count |-> Count(user_evts, LAMBDA e : e.event_name \in ADMIN_EVENTS),
     unique_regions |-> Cardinality({e.aws_region : e \in {x \in Range(user_evts) : Truthy(x.aws_region)}})]

\* mutant: one summary per event, the events not grouped by account
extract_user_features_ungrouped(evts) ==
    [i \in 1..Len(evts) |-> UserFeatures(evts[i].user_arn, <<evts[i]>>)]

extract_user_features(evts) ==
    LET arns == ArnOrder(evts, <<>>)
    IN  [i \in 1..Len(arns) |-> UserFeatures(arns[i], EventsOf(evts, arns[i]))]

\* sorted(), min() and max() over an account's event times raise TypeError
\* when the account mixes naive and aware datetimes
\* a / b on ints: the quotient, or ZeroDivisionError when b is 0
Quotient(a, b) == [num |-> a, den |-> b, ZeroDivisionError |-> b = 0]

\* mutant: the total is used as it is
VectorTotalUnfloored(uf) == uf.total_events

\* total = max(uf.total_events, 1)
VectorTotal(uf) == Max(uf.total_events, 1)

\* the ten counts of the vector in their fixed order and its three ratios;
\* event_name_entropy is not a field of the summaries modelled here
features_to_vector(uf) ==
    [counts |-> <<uf.total_events, uf.unique_event_names, uf.unique_ips,
                  uf.high_risk_event_count, uf.failed_event_count,
                  uf.off_hours_event_count, uf.consecutive_failures,
                  uf.mfa_missing_high_risk, uf.admin_action_count, uf.unique_regions>>,
     high_risk_ratio |-> Quotient(uf.high_risk_event_count, VectorTotal(uf)),
     failure_ratio |-> Quotient(uf.failed_event_count, VectorTotal(uf)),
     off_hours_ratio |-> Quotient(uf.off_hours_event_count, VectorTotal(uf))]

RaisesTypeError(evts) ==
    \E i, j \in 1..Len(evts) :
        /\ evts[i].user_arn = evts[j].user_arn
        /\ ~Comparable(evts[i].event_time, evts[j].event_time)

----------------------------------------------------------------------------
(* anomaly_engine.py: Layer 1, the rule engine *)

\* mutant: the ratio thresholds are inclusive
RatioReaches(num, total, pct) == num * 100 >= pct * total

\* num / total > pct / 100 as the code's float comparison decides it: the
\* quotient of two ints is correctly rounded, so it exceeds the literal
\* 0.30, 0.20 or 0.40 exactly when the rational quotient does
RatioExceeds(num, total, pct) == num * 100 > pct * total

RuleEngine_evaluate(uf) ==
    LET total == Max(uf.total_events, 1)
        t0 == <<>>
        t1 == IF RatioExceeds(uf.off_hours_event_count, total, 30)
              THEN Append(t0, "R01_OFF_HOURS_ACCESS") ELSE t0
        t2 == IF RatioExceeds(uf.high_risk_event_count, total, 20)
              THEN Append(t1, "R02_HIGH_RISK_RATIO") ELSE t1
        t3 == IF uf.mfa_missing_high_risk >= 1
              THEN Append(t2, "R03_HIGH_RISK_NO_MFA") ELSE t2
        t4 == IF uf.unique_ips >= 3
              THEN Append(t3, "R04_MULTIPLE_SOURCE_IPS") ELSE t3
        t5 == IF RatioExceeds(uf.failed_event_count, total, 40)
              THEN Append(t4, "R05_HIGH_FAILURE_RATE") ELSE t4
        t6 == IF uf.consecutive_failures >= 5
              THEN Append(t5, "R06_CONSECUTIVE_FAILURES") ELSE t5
        t7 == IF uf.admin_action_count >= 5
              THEN Append(t6, "R07_EXCESSIVE_ADMIN_ACTIONS") ELSE t6
        t8 == IF uf.unique_regions >= 2
              THEN Append(t7, "R08_MULTI_REGION_ACTIVITY") ELSE t7
        t9 == IF uf.total_events > 100
              THEN Append(t8, "R09_EVENT_BURST") ELSE t8
    IN  t9

----------------------------------------------------------------------------
(* anomaly_engine.py: Layer 2, the IsolationForest detector *)

\* values decision_function can take, in abstract units around the threshold
ScoreValues == {-1, 0, 1}

\* ml_threshold values an AnomalyEngine is constructed with; 0 is the default
Thresholds == {-1, 0}

ArnsOf(features_list) == {features_list[i].user_arn : i \in 1..Len(features_list)}

\* the dicts fit_predict can return: the neutral 0.0 for every account when
\* sklearn is missing or the batch has fewer than 2 accounts, otherwise
\* whatever the fitted forest scores
fit_predict(features_list, sklearn_ok) ==
    IF ~sklearn_ok \/ Len(features_list) < 2
    THEN {[a \in ArnsOf(features_list) |-> 0]}
    ELSE [ArnsOf(features_list) -> ScoreValues]

\* vectors = np.array([features_to_vector(uf) for uf in features_list]),
\* built only when the import succeeded and there are two summaries or more
fit_vectors(features_list, sklearn_ok) ==
    IF ~sklearn_ok \/ Len(features_list) < 2
    THEN <<>>
    ELSE [i \in 1..Len(features_list) |-> features_to_vector(features_list[i])]

----------------------------------------------------------------------------
(* anomaly_engine.py: AnomalyEngine.detect *)

\* mutant: the "both" branch is missing, rules take precedence
MethodWithoutBoth(rule_anomaly, ml_anomaly) ==
    IF rule_anomaly THEN "rule"
    ELSE IF ml_anomaly THEN "ml"
    ELSE "none"

Method(rule_anomaly, ml_anomaly) ==
    IF rule_anomaly /\ ml_anomaly THEN "both"
    ELSE IF rule_anomaly THEN "rule"
    ELSE IF ml_anomaly THEN "ml"
    ELSE "none"

MlAnomaly(ml_score, threshold) == ml_score <= threshold

DetectionResult(uf, ml_scores, threshold) ==
    LET triggered_rules == RuleEngine_evaluate(uf)
        rule_anomaly == Len(triggered_rules) > 0
        ml_score == IF uf.user_arn \in DOMAIN ml_scores THEN ml_scores[uf.user_arn] ELSE 0
        ml_anomaly == MlAnomaly(ml_score, threshold)
    IN  [user_arn |-> uf.user_arn,
         is_anomaly |-> rule_anomaly \/ ml_anomaly,
         detection_method |-> Method(rule_anomaly, ml_anomaly),
         triggered_rules |-> triggered_rules,
         ml_anomaly_score |-> ml_score]

AnomalyEngine_detect(features_list, ml_scores, threshold) ==
    [i \in 1..Len(features_list) |-> DetectionResult(features_list[i], ml_scores, threshold)]

----------------------------------------------------------------------------
(* risk_scoring.py *)

RULE_BASE_SCORES ==
    [R01_OFF_HOURS_ACCESS |-> 10, R02_HIGH_RISK_RATIO |-> 15,
     R03_HIGH_RISK_NO_MFA |-> 20, R04_MULTIPLE_SOURCE_IPS |-> 10,
     R05_HIGH_FAILURE_RATE |-> 15, R06_CONSECUTIVE_FAILURES |-> 20,
     R07_EXCESSIVE_ADMIN_ACTIONS |-> 18, R08_MULTI_REGION_ACTIVITY |-> 8,
     R09_EVENT_BURST |-> 10]

ML_ANOMALY_BONUS == 15

MAX_SCORE == 100

\* mutant: every rule gets the default points of an unknown rule
BasePointsDefault(rule) == 5

\* RULE_BASE_SCORES.get(rule, 5.0)
BasePoints(rule) ==
    IF rule \in DOMAIN RULE_BASE_SCORES THEN RULE_BASE_SCORES[rule] ELSE 5

\* mutant: MEDIUM starts at 35 points
levelMediumFrom35(score) ==
    IF score >= 80 THEN "CRITICAL"
    ELSE IF score >= 60 THEN "HIGH"
    ELSE IF score >= 35 THEN "MEDIUM"
    ELSE "LOW"

\* mutant: the level boundaries are exclusive
levelExclusive(score) ==
    IF score > 80 THEN "CRITICAL"
    ELSE IF score > 60 THEN "HIGH"
    ELSE IF score > 40 THEN "MEDIUM"
    ELSE "LOW"

level(score) ==
    IF score >= 80 THEN "CRITICAL"
    ELSE IF score >= 60 THEN "HIGH"
    ELSE IF score >= 40 THEN "MEDIUM"
    ELSE "LOW"

\* round(x, 2): x is a sum of whole-number points (10.0, 15.0, ..., a penalty
\* of 1.0 per failure) capped at 100.0, so it has no decimals to round away
Round2(x) == x

\* a dict in insertion order: a sequence of entries with distinct keys
DictKeys(d) == {d[i].key : i \in 1..Len(d)}

DictGet(d, k) == d[CHOOSE i \in 1..Len(d) : d[i].key = k].pts

\* d[k] = v
DictSet(d, k, v) ==
    IF k \in DictKeys(d)
    THEN [i \in 1..Len(d) |-> IF d[i].key = k THEN [key |-> k, pts |-> v] ELSE d[i]]
    ELSE Append(d, [key |-> k, pts |-> v])

\* the sentences of _recommendations, by tag
REC_MFA == "apply MFA to the account immediately"
REC_LOCK == "consecutive failures: review account lock or IP block"
REC_POLP == "review least privilege: remove unneeded admin policies"
REC_IP == "check abnormal IP access: VPC endpoint or IP allow list"
REC_NIGHT == "check off-hours access pattern"
REC_SCP == "restrict allowed regions with an SCP"
REC_ML == "ML model found a statistical anomaly: review logs manually"
REC_URGENT == "[urgent] disable the IAM account/role and investigate"
REC_NONE == "no anomaly detected: keep regular monitoring"

\* mutant: the urgent directive is appended, recs.append in place of recs.insert(0, ...)
recommendations_urgent_last(result, lvl) ==
    LET has(r) == r \in Range(result.triggered_rules)
        r0 == <<>>
        r1 == IF has("R03_HIGH_RISK_NO_MFA") THEN Append(r0, REC_MFA) ELSE r0
        r2 == IF has("R06_CONSECUTIVE_FAILURES") THEN Append(r1, REC_LOCK) ELSE r1
        r3 == IF has("R07_EXCESSIVE_ADMIN_ACTIONS") THEN Append(r2, REC_POLP) ELSE r2
        r4 == IF has("R04_MULTIPLE_SOURCE_IPS") THEN Append(r3, REC_IP) ELSE r3
        r5 == IF has("R01_OFF_HOURS_ACCESS") THEN Append(r4, REC_NIGHT) ELSE r4
        r6 == IF has("R08_MULTI_REGION_ACTIVITY") THEN Append(r5, REC_SCP) ELSE r5
        r7 == IF result.detection_method \in {"ml", "both"} THEN Append(r6, REC_ML) ELSE r6
        r8 == IF lvl = "CRITICAL" THEN Append(r7, REC_URGENT) ELSE r7
    IN  IF r8 = <<>> THEN <<REC_NONE>> ELSE r8

\* mutant: the closing "if not recs" fallback is left out
recommendations_no_fallback(result, lvl) ==
    LET has(r) == r \in Range(result.triggered_rules)
        r0 == <<>>
        r1 == IF has("R03_HIGH_RISK_NO_MFA") THEN Append(r0, REC_MFA) ELSE r0
        r2 == IF has("R06_CONSECUTIVE_FAILURES") THEN Append(r1, REC_LOCK) ELSE r1
        r3 == IF has("R07_EXCESSIVE_ADMIN_ACTIONS") THEN Append(r2, REC_POLP) ELSE r2
        r4 == IF has("R04_MULTIPLE_SOURCE_IPS") THEN Append(r3, REC_IP) ELSE r3
        r5 == IF has("R01_OFF_HOURS_ACCESS") THEN Append(r4, REC_NIGHT) ELSE r4
        r6 == IF has("R08_MULTI_REGION_ACTIVITY") THEN Append(r5, REC_SCP) ELSE r5
        r7 == IF result.detection_method \in {"ml", "both"} THEN Append(r6, REC_ML) ELSE r6
    IN  IF lvl = "CRITICAL" THEN <<REC_URGENT>> \o r7 ELSE r7

recommendations(result, lvl) ==
    LET has(r) == r \in Range(result.triggered_rules)
        r0 == <<>>
        r1 == IF has("R03_HIGH_RISK_NO_MFA") THEN Append(r0, REC_MFA) ELSE r0
        r2 == IF has("R06_CONSECUTIVE_FAILURES") THEN Append(r1, REC_LOCK) ELSE r1
        r3 == IF has("R07_EXCESSIVE_ADMIN_ACTIONS") THEN Append(r2, REC_POLP) ELSE r2
        r4 == IF has("R04_MULTIPLE_SOURCE_IPS") THEN Append(r3, REC_IP) ELSE r3
        r5 == IF has("R01_OFF_HOURS_ACCESS") THEN Append(r4, REC_NIGHT) ELSE r4
        r6 == IF has("R08_MULTI_REGION_ACTIVITY") THEN Append(r5, REC_SCP) ELSE r5
        r7 == IF result.detection_method \in {"ml", "both"} THEN Append(r6, REC_ML) ELSE r6
        r8 == IF lvl = "CRITICAL" THEN <<REC_URGENT>> \o r7 ELSE r7
    IN  IF r8 = <<>> THEN <<REC_NONE>> ELSE r8

\* step 1 of calculate_risk_score: the loop over result.triggered_rules
RECURSIVE RuleBreakdown(_, _)
RuleBreakdown(rules, breakdown) ==
    IF rules = <<>> THEN breakdown
    ELSE RuleBreakdown(Tail(rules), DictSet(breakdown, Head(rules), BasePoints(Head(rules))))

RuleTotal(rules) == SumSeq([i \in 1..Len(rules) |-> BasePoints(rules[i])])

\* mutant: the total is not capped
FinalScoreUncapped(total) == total

\* step 4: the cap
FinalScore(total) == Min(total, MAX_SCORE)

\* mutant: the consecutive-failure penalty is added only when a rule triggered
calculate_risk_score_penalty_with_rule(result, uf) ==
    LET b1 == RuleBreakdown(result.triggered_rules, <<>>)
        total1 == RuleTotal(result.triggered_rules)
        ml == result.detection_method \in {"ml", "both"}
        b2 == IF ml THEN DictSet(b1, "ML_ANOMALY", ML_ANOMALY_BONUS) ELSE b1
        total2 == IF ml THEN total1 + ML_ANOMALY_BONUS ELSE total1
        consec_penalty == IF result.triggered_rules = <<>> THEN 0
                          ELSE Min(uf.consecutive_failures, 10)
        b3 == IF consec_penalty > 0
              THEN DictSet(b2, "CONSECUTIVE_FAIL_PENALTY", consec_penalty) ELSE b2
        total3 == IF consec_penalty > 0 THEN total2 + consec_penalty ELSE total2
        final_score == FinalScore(total3)
        lvl == level(final_score)
    IN  [user_arn |-> result.user_arn,
         score |-> Round2(final_score),
         level |-> lvl,
         score_breakdown |-> b3,
         recommendations |-> recommendations(result, lvl)]

calculate_risk_score(result, uf) ==
    LET b1 == RuleBreakdown(result.triggered_rules, <<>>)
        total1 == RuleTotal(result.triggered_rules)
        ml == result.detection_method \in {"ml", "both"}
        b2 == IF ml THEN DictSet(b1, "ML_ANOMALY", ML_ANOMALY_BONUS) ELSE b1
        total2 == IF ml THEN total1 + ML_ANOMALY_BONUS ELSE total1
        consec_penalty == Min(uf.consecutive_failures, 10)
        b3 == IF consec_penalty > 0
              THEN DictSet(b2, "CONSECUTIVE_FAIL_PENALTY", consec_penalty) ELSE b2
        total3 == IF consec_penalty > 0 THEN total2 + consec_penalty ELSE total2
        final_score == FinalScore(total3)
        lvl == level(final_score)
    IN  [user_arn |-> result.user_arn,
         score |-> Round2(final_score),
         level |-> lvl,
         score_breakdown |-> b3,
         recommendations |-> recommendations(result, lvl)]

\* sorted(risk_scores, key=lambda r: r.score, reverse=True): stable, so
\* InsertByScore puts r behind every element whose score is not lower
RECURSIVE InsertByScore(_, _)
InsertByScore(r, s) ==
    IF s = <<>> THEN <<r>>
    ELSE IF Head(s).score >= r.score
         THEN <<Head(s)>> \o InsertByScore(r, Tail(s))
         ELSE <<r>> \o s

RECURSIVE SortedByScoreDesc(_)
SortedByScoreDesc(s) ==
    IF s = <<>> THEN <<>>
    ELSE InsertByScore(s[Len(s)], SortedByScoreDesc(SubSeq(s, 1, Len(s) - 1)))

Reverse(s) == [i \in 1..Len(s) |-> s[Len(s) + 1 - i]]

\* mutant: sorted(risk_scores, key=...)[::-1], which turns ties around
rank_users_reversed(scores) == SortedByScoreDesc(Reverse(scores))

rank_users(scores) == SortedByScoreDesc(scores)

\* features_map = {uf.user_arn: uf for uf in features_list}; features_map[arn]
FeaturesMap(features_list, arn) ==
    LET idx == {i \in 1..Len(features_list) : features_list[i].user_arn = arn}
    IN  features_list[CHOOSE i \in idx : \A j \in idx : j <= i]

RiskScores(detection_results, features_list) ==
    [i \in 1..Len(detection_results) |->
        calculate_risk_score(detection_results[i],
                             FeaturesMap(features_list, detection_results[i].user_arn))]

----------------------------------------------------------------------------
(* Inputs *)

BatchAccounts == {Accounts[1], Accounts[2]}

MidMorning == Aware(34, 0)    \* 10:00 UTC on day 1

\* events of a batch that differ in account, action name and outcome
BasicEvents ==
    {CloudTrailEvent(a, MidMorning, n, err, FALSE, "10.0.0.1", "us-east-1") :
        a \in BatchAccounts, n \in {"ListUsers", "CreateUser"}, err \in {"", "AccessDenied"}}

\* event times around the off-hours window, with and without a UTC offset
Times == {Aware(29, 0),     \* 05:00+00:00
          Aware(30, 0),     \* 06:00+00:00
          Aware(45, 0),     \* 21:00+00:00
          Aware(46, 0),     \* 22:00+00:00
          Aware(47, 9),     \* 23:00+09:00, the instant 14:00 UTC
          Naive(46)}        \* 22:00 without offset

\* events of a batch that differ in account, time and outcome
TimedEvents ==
    {CloudTrailEvent(a, t, "ListUsers", err, FALSE, "10.0.0.1", "us-east-1") :
        a \in BatchAccounts, t \in Times, err \in {"", "AccessDenied"}}

\* feature summaries at and just past every rule threshold, for one account
FeatureGrid(arn) ==
    {[user_arn |-> arn, total_events |-> 0, unique_event_names |-> 0, unique_ips |-> 0,
      high_risk_event_count |-> 0, failed_event_count |-> 0, off_hours_event_count |-> 0,
      consecutive_failures |-> 0, mfa_missing_high_risk |-> 0, admin_action_count |-> 0,
      unique_regions |-> 0]}
    \cup
    UNION {
      {[user_arn |-> arn, total_events |-> total, unique_event_names |-> 1,
        unique_ips |-> ips, high_risk_event_count |-> hr, failed_event_count |-> failed,
        off_hours_event_count |-> off, consecutive_failures |-> consec,
        mfa_missing_high_risk |-> mfa, admin_action_count |-> admin,
        unique_regions |-> regions] :
          off \in {(3 * total) \div 10, (3 * total) \div 10 + 1},
          hr \in {total \div 5, total \div 5 + 1},
          mfa \in {0, 1},
          ips \in {2, 3},
          failed \in {0, (2 * total) \div 5, (2 * total) \div 5 + 1},
          consec \in {0, 4, 5, 10, 11},
          admin \in {4, 5},
          regions \in {1, 2}}
      : total \in {10, 100, MaxTotal}}

\* a summary extract_user_features can produce: the run is among the failures
Consistent(uf) ==
    /\ uf.consecutive_failures <= uf.failed_event_count
    /\ (uf.failed_event_count > 0 => uf.consecutive_failures > 0)

\* four summaries of different risk, to rank several accounts
Profile(arn, kind) ==
    [user_arn |-> arn, total_events |-> IF kind = 4 THEN MaxTotal ELSE 10,
     unique_event_names |-> 1,
     unique_ips |-> IF kind = 4 THEN 3 ELSE 1,
     high_risk_event_count |-> IF kind = 1 THEN 0 ELSE IF kind = 4 THEN 40 ELSE 3,
     failed_event_count |-> IF kind = 3 THEN 5 ELSE IF kind = 4 THEN 50 ELSE 0,
     off_hours_event_count |-> IF kind = 4 THEN 40 ELSE 0,
     consecutive_failures |-> IF kind = 3 THEN 5 ELSE IF kind = 4 THEN 12 ELSE 0,
     mfa_missing_high_risk |-> IF kind \in {2, 4} THEN 1 ELSE 0,
     admin_action_count |-> IF kind = 4 THEN 5 ELSE 0,
     unique_regions |-> IF kind = 4 THEN 2 ELSE 1]

ProfileLists ==
    UNION {{[i \in 1..k |-> Profile(Accounts[i], kinds[i])] : kinds \in [1..k -> 1..4]}
           : k \in 0..MaxAccounts}

\* summaries built by hand with total_events = 0, each ratio numerator 0 or 1
ZeroTotal(arn) ==
    {[user_arn |-> arn, total_events |-> 0, unique_event_names |-> 0, unique_ips |-> 0,
      high_risk_event_count |-> hr, failed_event_count |-> failed,
      off_hours_event_count |-> off, consecutive_failures |-> failed,
      mfa_missing_high_risk |-> 0, admin_action_count |-> 0, unique_regions |-> 0] :
        hr \in {0, 1}, failed \in {0, 1}, off \in {0, 1}}

ZeroTotalLists ==
    {<<a, b>> : a \in ZeroTotal(Accounts[1]), b \in ZeroTotal(Accounts[2])}

FeatureLists ==
    {<<uf>> : uf \in {g \in FeatureGrid(Accounts[1]) : Consistent(g)}}
    \cup ProfileLists \cup ZeroTotalLists

Late == Aware(46, 0)    \* 22:00 UTC on day 1

\* four high-privilege events of one account without MFA from one address,
\* alone in the batch or followed by an event of a second account
HighRiskNoMfaBatches ==
    LET four == [1..4 -> {CloudTrailEvent(Accounts[1], t, "CreateUser", err, FALSE,
                                          "10.0.0.1", "us-east-1") :
                             t \in {MidMorning, Late}, err \in {"", "AccessDenied"}}]
        other == CloudTrailEvent(Accounts[2], MidMorning, "ListUsers", "", TRUE,
                                 "10.0.0.2", "us-east-1")
    IN  four \cup {Append(b, other) : b \in four}

\* the events of one account at MaxRun successive hours of a day, any of
\* them failed, in batch order by time or odd positions before even ones
FailureRunBatches ==
    LET at(i, failed) == CloudTrailEvent(Accounts[3], Aware(30 + i, 0), "ListUsers",
                                         IF failed THEN "AccessDenied" ELSE "",
                                         TRUE, "10.0.0.1", "us-east-1")
        odds == {i \in 1..MaxRun : i % 2 = 1}
        shuffle(i) == IF i <= Cardinality(odds) THEN 2 * i - 1
                      ELSE 2 * (i - Cardinality(odds))
    IN  {[i \in 1..MaxRun |-> at(i, f[i])] : f \in [1..MaxRun -> BOOLEAN]}
        \cup {[i \in 1..MaxRun |-> at(shuffle(i), f[shuffle(i)])] : f \in [1..MaxRun -> BOOLEAN]}

\* the batches uploaded to the API: one account; two accounts, the second
\* with a high-privilege action without MFA
ApiBatches ==
    {<<CloudTrailEvent(Accounts[1], MidMorning, "ListUsers", "", TRUE, "10.0.0.1", "us-east-1")>>,
     <<CloudTrailEvent(Accounts[1], MidMorning, "ListUsers", "", TRUE, "10.0.0.1", "us-east-1"),
       CloudTrailEvent(Accounts[2], Late, "CreateUser", "", FALSE, "10.0.0.2", "us-east-1")>>}

\* the files POSTed to /upload-log: whether the name ends in .json, whether
\* the content is within 50 MB, whether parse_raw_json accepts it, and the
\* events it yields
UploadFiles ==
    {[name_ok |-> FALSE, size_ok |-> TRUE, parse_ok |-> TRUE, events |-> <<>>],
     [name_ok |-> TRUE, size_ok |-> FALSE, parse_ok |-> TRUE, events |-> <<>>],
     [name_ok |-> TRUE, size_ok |-> TRUE, parse_ok |-> FALSE, events |-> <<>>],
     [name_ok |-> TRUE, size_ok |-> TRUE, parse_ok |-> TRUE, events |-> <<>>]}
    \cup {[name_ok |-> TRUE, size_ok |-> TRUE, parse_ok |-> TRUE, events |-> b] : b \in ApiBatches}

\* str(uuid.uuid4()): the ids handed out, in the order of the uploads
SessionIds == <<"s1", "s2", "s3", "s4">>

\* session ids a client sends: the ids of the run and one never handed out
RequestIds == {SessionIds[i] : i \in 1..MaxSessions} \cup {"unknown"}

\* top_n values of GET /risk-summary, within Query(ge=1, le=100)
TopNs == {1, 2}

----------------------------------------------------------------------------
(* models/schemas.py, database/db.py, api/upload.py, api/detect.py *)

\* mutant: the catalog has no description of the event-burst rule
RULE_DESCRIPTIONS_without_R09 ==
    [r \in {"R01_OFF_HOURS_ACCESS", "R02_HIGH_RISK_RATIO", "R03_HIGH_RISK_NO_MFA",
            "R04_MULTIPLE_SOURCE_IPS", "R05_HIGH_FAILURE_RATE", "R06_CONSECUTIVE_FAILURES",
            "R07_EXCESSIVE_ADMIN_ACTIONS", "R08_MULTI_REGION_ACTIVITY"} |-> "described"]

RULE_DESCRIPTIONS ==
    [r \in {"R01_OFF_HOURS_ACCESS", "R02_HIGH_RISK_RATIO", "R03_HIGH_RISK_NO_MFA",
            "R04_MULTIPLE_SOURCE_IPS", "R05_HIGH_FAILURE_RATE", "R06_CONSECUTIVE_FAILURES",
            "R07_EXCESSIVE_ADMIN_ACTIONS", "R08_MULTI_REGION_ACTIVITY", "R09_EVENT_BURST"} |->
        CASE r = "R01_OFF_HOURS_ACCESS" -> "off-hours (22:00-06:00) access ratio above 30%"
          [] r = "R02_HIGH_RISK_RATIO" -> "high-risk event ratio above 20%"
          [] r = "R03_HIGH_RISK_NO_MFA" -> "high-risk event without MFA"
          [] r = "R04_MULTIPLE_SOURCE_IPS" -> "3 or more different source IPs"
          [] r = "R05_HIGH_FAILURE_RATE" -> "event failure rate above 40%"
          [] r = "R06_CONSECUTIVE_FAILURES" -> "5 or more consecutive failures"
          [] r = "R07_EXCESSIVE_ADMIN_ACTIONS" -> "5 or more admin actions"
          [] r = "R08_MULTI_REGION_ACTIVITY" -> "activity in 2 or more regions"
          [] r = "R09_EVENT_BURST" -> "more than 100 events in a short time"]

\* RULE_DESCRIPTIONS.get(rule, rule)
DescriptionOf(rule) ==
    IF rule \in DOMAIN RULE_DESCRIPTIONS THEN RULE_DESCRIPTIONS[rule] ELSE rule

\* DetectionRecord.set_json / get_json: the value as JSON text of a TEXT
\* column; json.loads(json.dumps(v)) gives back lists of strings and dicts
\* of numbers as they were
set_json(value) == [json |-> value]

get_json(text) == text.json

\* the row POST /detect adds for one account
DetectionRecord(session_id, dr, rs) ==
    [session_id |-> session_id,
     user_arn |-> dr.user_arn,
     is_anomaly |-> dr.is_anomaly,
     risk_score |-> rs.score,
     risk_level |-> rs.level,
     detection_method |-> dr.detection_method,
     triggered_rules |-> set_json(dr.triggered_rules),
     score_breakdown |-> set_json(rs.score_breakdown),
     recommendations |-> set_json(rs.recommendations)]

\* the element of DetectResponse.results for one account
UserDetectionResult(dr, rs) ==
    [user_arn |-> dr.user_arn,
     is_anomaly |-> dr.is_anomaly,
     risk_score |-> rs.score,
     risk_level |-> rs.level,
     detection_method |-> dr.detection_method,
     triggered_rules |-> [i \in 1..Len(dr.triggered_rules) |->
                             [rule_id |-> dr.triggered_rules[i],
                              description |-> DescriptionOf(dr.triggered_rules[i])]],
     score_breakdown |-> rs.score_breakdown,
     recommendations |-> rs.recommendations]

\* mutant: the filter on session_id is left out
RecordsOfAnySession(session_id) == records

\* db.query(DetectionRecord).filter(session_id == ...).all()
RecordsOf(session_id) == SelectSeq(records, LAMBDA r : r.session_id = session_id)

\* sorted(records, key=lambda r: r.risk_score, reverse=True): stable
RECURSIVE InsertByRiskScore(_, _)
InsertByRiskScore(r, s) ==
    IF s = <<>> THEN <<r>>
    ELSE IF Head(s).risk_score >= r.risk_score
         THEN <<Head(s)>> \o InsertByRiskScore(r, Tail(s))
         ELSE <<r>> \o s

RECURSIVE SortedByRiskScoreDesc(_)
SortedByRiskScoreDesc(s) ==
    IF s = <<>> THEN <<>>
    ELSE InsertByRiskScore(s[Len(s)], SortedByRiskScoreDesc(SubSeq(s, 1, Len(s) - 1)))

\* mutant: the records are cut to top_n before they are sorted
top_records_cut_first(recs, top_n) ==
    SortedByRiskScoreDesc(SubSeq(recs, 1, Min(top_n, Len(recs))))

\* sorted_records[:top_n]
top_records(recs, top_n) ==
    SubSeq(SortedByRiskScoreDesc(recs), 1, Min(top_n, Len(recs)))

\* level_counts, counted over all records of the session
level_counts(recs) ==
    [l \in {"CRITICAL", "HIGH", "MEDIUM", "LOW"} |->
        Cardinality({i \in 1..Len(recs) : recs[i].risk_level = l})]

\* the RiskSummaryItem of the record at a rank
RiskSummaryItem(rank, rec) ==
    LET triggered == get_json(rec.triggered_rules)
        recs_list == get_json(rec.recommendations)
    IN  [rank |-> rank,
         user_arn |-> rec.user_arn,
         risk_score |-> rec.risk_score,
         risk_level |-> rec.risk_level,
         top_triggered_rules |-> SubSeq(triggered, 1, Min(3, Len(triggered))),
         recommendation |-> IF recs_list # <<>> THEN recs_list[1] ELSE ""]

----------------------------------------------------------------------------
(* The run of the pipeline *)

\* no HTTP request was served: empty store, empty tables
NoResponse == [op |-> "none", session_id |-> "", code |-> 0]

ApiIdle ==
    /\ session_store = <<>>
    /\ sessions = <<>>
    /\ records = <<>>
    /\ response = NoResponse

NoDocument == [kind |-> "none"]

SideIdle ==
    /\ document = NoDocument
    /\ parsed = NoDocument
    /\ event_counts = <<>>
    /\ event_name_entropy = <<>>
    /\ mvp_output = <<>>

Empty ==
    /\ SideIdle
    /\ features = <<>>
    /\ results = <<>>
    /\ risk_scores = <<>>
    /\ ranked = <<>>
    /\ vectors = <<>>
    /\ ApiIdle

\* a batch of parsed events and an engine, before detection
Init ==
    /\ pc = "start"
    /\ events \in SeqsUpTo(BasicEvents, MaxEvents)
    /\ sklearn \in BOOLEAN
    /\ ml_threshold \in Thresholds
    /\ Empty

\* a batch whose events differ in their times
InitTime ==
    /\ pc = "start"
    /\ events \in SeqsUpTo(TimedEvents, MaxEvents)
    /\ sklearn = TRUE
    /\ ml_threshold = 0
    /\ Empty

\* feature summaries handed to AnomalyEngine.detect directly
InitScore ==
    /\ pc = "features"
    /\ events = <<>>
    /\ sklearn \in BOOLEAN
    /\ ml_threshold \in Thresholds
    /\ features \in FeatureLists
    /\ results = <<>>
    /\ risk_scores = <<>>
    /\ ranked = <<>>
    /\ vectors = <<>>
    /\ SideIdle
    /\ ApiIdle

\* the batches of the two test accounts of the sample log
InitScenario ==
    /\ pc = "start"
    /\ events \in HighRiskNoMfaBatches \cup FailureRunBatches
    /\ sklearn = TRUE
    /\ ml_threshold \in Thresholds
    /\ Empty

\* features_list = extract_user_features(events)
Extract ==
    /\ pc = "start"
    /\ IF RaisesTypeError(events)
       THEN /\ pc' = "error"
            /\ UNCHANGED features
       ELSE /\ pc' = "features"
            /\ features' = extract_user_features(events)
    /\ UNCHANGED <<events, sklearn, ml_threshold, results, risk_scores, ranked, vectors, api, side>>

\* detection_results = engine.detect(features_list)
Detect ==
    /\ pc = "features"
    /\ \E ml_scores \in fit_predict(features, sklearn) :
          results' = AnomalyEngine_detect(features, ml_scores, ml_threshold)
    /\ vectors' = fit_vectors(features, sklearn)
    /\ pc' = "detected"
    /\ UNCHANGED <<events, sklearn, ml_threshold, features, risk_scores, ranked, api, side>>

\* risk_scores = [calculate_risk_score(dr, features_map[dr.user_arn]) for dr in ...]
Score ==
    /\ pc = "detected"
    /\ risk_scores' = RiskScores(results, features)
    /\ pc' = "scored"
    /\ UNCHANGED <<events, sklearn, ml_threshold, features, results, ranked, vectors, api, side>>

\* ranked = rank_users(risk_scores)
Rank ==
    /\ pc = "scored"
    /\ ranked' = rank_users(risk_scores)
    /\ pc' = "ranked"
    /\ UNCHANGED <<events, sklearn, ml_threshold, features, results, risk_scores, vectors, api, side>>

Next == Extract \/ Detect \/ Score \/ Rank

Spec == Init /\ [][Next]_vars

NextTime == Extract

SpecTime == InitTime /\ [][NextTime]_vars

NextScore == Detect \/ Score \/ Rank

SpecScore == InitScore /\ [][NextScore]_vars

NextScenario == Extract \/ Detect \/ Score \/ Rank

SpecScenario == InitScenario /\ [][NextScenario]_vars

----------------------------------------------------------------------------
(* The API: POST /upload-log, POST /detect, GET /risk-summary *)

pipeline == <<pc, events, ml_threshold, features, results, risk_scores, ranked, vectors>>

\* the service after start-up: empty store, tables created and empty
InitApi ==
    /\ pc = "api"
    /\ events = <<>>
    /\ sklearn = TRUE
    /\ ml_threshold = 0
    /\ Empty

\* mutant: a failed request marks every session as failed
FailureMarksSessions(op, session_id, code) ==
    /\ response' = [op |-> op, session_id |-> session_id, code |-> code]
    /\ sessions' = [s \in DOMAIN sessions |-> [sessions[s] EXCEPT !.status = "error"]]
    /\ UNCHANGED <<session_store, records>>

\* an HTTPException or an unhandled exception: nothing is stored
Failure(op, session_id, code) ==
    /\ response' = [op |-> op, session_id |-> session_id, code |-> code]
    /\ UNCHANGED <<session_store, sessions, records>>

\* POST /upload-log
upload_log(file) ==
    /\ pc = "api"
    /\ IF ~file.name_ok THEN Failure("upload", "", 400)
       ELSE IF ~file.size_ok THEN Failure("upload", "", 413)
       ELSE IF ~file.parse_ok THEN Failure("upload", "", 422)
       ELSE IF file.events = <<>> THEN Failure("upload", "", 400)
       ELSE /\ Cardinality(DOMAIN sessions) < MaxSessions
            /\ LET session_id == SessionIds[Cardinality(DOMAIN sessions) + 1]
                   unique_users == Cardinality({e.user_arn : e \in Range(file.events)})
               IN  /\ sessions' = sessions @@
                          (session_id :> [status |-> "pending",
                                          total_events |-> Len(file.events),
                                          unique_users |-> unique_users])
                   /\ session_store' = session_store @@ (session_id :> file.events)
                   /\ response' = [op |-> "upload", session_id |-> session_id, code |-> 200,
                                   total_events |-> Len(file.events),
                                   unique_users |-> unique_users]
                   /\ UNCHANGED records
    /\ UNCHANGED <<pipeline, sklearn, side>>

\* IsolationForest.fit accepts contamination in (0, 0.5] only; req.contamination
\* is within [0.01, 0.49], and 0.0 is what detect passes when ml_enabled is false
FitRejects(features_list, ml_enabled) ==
    sklearn /\ Len(features_list) >= 2 /\ ~ml_enabled

\* POST /detect
detect(session_id, ml_enabled) ==
    /\ pc = "api"
    /\ IF session_id \notin DOMAIN session_store THEN Failure("detect", session_id, 404)
       ELSE IF session_id \notin DOMAIN sessions THEN Failure("detect", session_id, 404)
       ELSE IF RaisesTypeError(session_store[session_id]) THEN Failure("detect", session_id, 500)
       ELSE LET features_list == extract_user_features(session_store[session_id])
            IN  IF FitRejects(features_list, ml_enabled) THEN Failure("detect", session_id, 500)
                ELSE /\ Len(records) + Len(features_list) <= MaxRecords
                     /\ \E ml_scores \in fit_predict(features_list, sklearn) :
                           LET detection_results ==
                                   AnomalyEngine_detect(features_list, ml_scores, ml_threshold)
                               scores == RiskScores(detection_results, features_list)
                           IN  /\ records' = records \o
                                      [i \in 1..Len(scores) |->
                                          DetectionRecord(session_id, detection_results[i], scores[i])]
                               /\ sessions' = [sessions EXCEPT ![session_id].status = "completed"]
                               /\ response' =
                                      [op |-> "detect", session_id |-> session_id, code |-> 200,
                                       ml_enabled |-> ml_enabled,
                                       total_users_analyzed |-> Len(scores),
                                       anomaly_count |->
                                           Cardinality({i \in 1..Len(scores) :
                                                           detection_results[i].is_anomaly}),
                                       results |-> [i \in 1..Len(scores) |->
                                                      UserDetectionResult(detection_results[i],
                                                                          scores[i])]]
                               /\ UNCHANGED session_store
    /\ UNCHANGED <<pipeline, sklearn, side>>

\* GET /risk-summary
risk_summary(session_id, top_n) ==
    /\ pc = "api"
    /\ LET recs == RecordsOf(session_id)
       IN  IF recs = <<>> THEN Failure("risk-summary", session_id, 404)
           ELSE LET top == top_records(recs, top_n)
                    counts == level_counts(recs)
                IN  /\ response' =
                           [op |-> "risk-summary", session_id |-> session_id, code |-> 200,
                            asked |-> top_n,
                            top_n |-> Len(top),
                            summary |-> [i \in 1..Len(top) |-> RiskSummaryItem(i, top[i])],
                            critical_count |-> counts["CRITICAL"],
                            high_count |-> counts["HIGH"],
                            medium_count |-> counts["MEDIUM"],
                            low_count |-> counts["LOW"]]
                    /\ UNCHANGED <<session_store, sessions, records>>
    /\ UNCHANGED <<pipeline, sklearn, side>>

\* the process is started again: the in-memory store is empty, the database
\* file keeps its rows
Restart ==
    /\ pc = "api"
    /\ session_store # <<>>
    /\ session_store' = <<>>
    /\ response' = NoResponse
    /\ UNCHANGED <<sessions, records, pipeline, sklearn, side>>

Upload == \E file \in UploadFiles : upload_log(file)

DetectCall == \E session_id \in RequestIds, ml_enabled \in BOOLEAN : detect(session_id, ml_enabled)

Summary == \E session_id \in RequestIds, top_n \in TopNs : risk_summary(session_id, top_n)

NextApi == Upload \/ DetectCall \/ Summary \/ Restart

SpecApi == InitApi /\ [][NextApi]_vars

----------------------------------------------------------------------------
(* services/parser.py: parse_event, parse_raw_json, parse_file.  A JSON    *)
(* value is a record with its kind; an object carries its members as a     *)
(* function of the keys, an array its items, a string its length.          *)

JNumber == [kind |-> "number"]

JNull == [kind |-> "null"]

JString(n) == [kind |-> "string", len |-> n]

JArray(items) == [kind |-> "array", items |-> items]

JObject(fields) == [kind |-> "object", fields |-> fields]

\* text that json.loads does not accept
NotJson == [kind |-> "invalid"]

Raise(exc) == [kind |-> "raise", exc |-> exc]

\* raw.get(key, default)
raw_get(raw, key, default) ==
    IF key \in DOMAIN raw.fields THEN raw.fields[key] ELSE default

\* identity.get("arn") or identity.get("principalId", "unknown"), with
\* identity = raw.get("userIdentity", {})
arn_of(raw) ==
    IF "userIdentity" \notin DOMAIN raw.fields THEN "unknown"
    ELSE LET identity == raw.fields["userIdentity"]
         IN  IF "arn" \in DOMAIN identity /\ Truthy(identity["arn"]) THEN identity["arn"]
             ELSE IF "principalId" \in DOMAIN identity THEN identity["principalId"]
             ELSE "unknown"

\* datetime.fromisoformat(raw.get("eventTime", "").replace("Z", "+00:00")),
\* or datetime.utcnow() when the text is missing or not ISO 8601; an
\* eventTime member holds the datetime its text denotes
event_time_of(raw, now) ==
    IF "eventTime" \in DOMAIN raw.fields THEN raw.fields["eventTime"] ELSE now

\* parse_event(raw): raw.get raises AttributeError when raw is not a dict
parse_event(raw, now) ==
    IF raw.kind # "object" THEN Raise("AttributeError")
    ELSE [kind |-> "event",
          event |-> CloudTrailEvent(arn_of(raw),
                                    event_time_of(raw, now),
                                    raw_get(raw, "eventName", ""),
                                    raw_get(raw, "errorCode", ""),
                                    raw_get(raw, "MFAUsed", FALSE),
                                    raw_get(raw, "sourceIPAddress", ""),
                                    raw_get(raw, "awsRegion", ""))]

\* what "for evt in raw_events" walks over: the items of a list, the keys
\* of a dict, the characters of a str; any other value is not iterable
iterate(value) ==
    CASE value.kind = "array" -> [kind |-> "items", items |-> value.items]
      [] value.kind = "object" ->
            [kind |-> "items",
             items |-> [i \in 1..Cardinality(DOMAIN value.fields) |-> JString(1)]]
      [] value.kind = "string" ->
            [kind |-> "items", items |-> [i \in 1..value.len |-> JString(1)]]
      [] OTHER -> Raise("TypeError")

\* [parse_event(evt) for evt in raw_events]: the first exception ends the
\* comprehension and no list is returned
RECURSIVE parse_events(_, _, _)
parse_events(items, now, acc) ==
    IF items = <<>> THEN [kind |-> "events", events |-> acc]
    ELSE LET r == parse_event(Head(items), now)
         IN  IF r.kind = "raise" THEN r
             ELSE parse_events(Tail(items), now, Append(acc, r.event))

\* the part parse_raw_json and parse_file share, from the isinstance tests on
load_records(data, now) ==
    LET raw_events ==
            IF data.kind = "object" /\ "Records" \in DOMAIN data.fields
            THEN [kind |-> "value", value |-> data.fields["Records"]]
            ELSE IF data.kind = "array" THEN [kind |-> "value", value |-> data]
            ELSE Raise("ValueError")
    IN  IF raw_events.kind = "raise" THEN raw_events
        ELSE LET walk == iterate(raw_events.value)
             IN  IF walk.kind = "raise" THEN walk
                 ELSE parse_events(walk.items, now, <<>>)

\* json.loads raises JSONDecodeError, a ValueError, on text that is not JSON
parse_raw_json(content, now) ==
    IF content.kind = "invalid" THEN Raise("ValueError")
    ELSE load_records(content, now)

parse_file(file, now) ==
    IF ~file.exists THEN Raise("FileNotFoundError")
    ELSE IF file.content.kind = "invalid" THEN Raise("ValueError")
    ELSE load_records(file.content, now)

\* the records of the documents: an event of alice with every member, an
\* event of an identity without arn and without time, an object without any
\* member CloudTrail sets, and a number where a record is expected
RawRecords ==
    {JObject([userIdentity |-> [arn |-> Accounts[1]], eventTime |-> MidMorning,
              eventName |-> "ListUsers", sourceIPAddress |-> "10.0.0.1",
              awsRegion |-> "us-east-1", MFAUsed |-> TRUE]),
     JObject([userIdentity |-> [arn |-> "", principalId |-> Accounts[2]],
              eventName |-> "CreateUser", errorCode |-> "AccessDenied"]),
     JObject([eventSource |-> "iam.amazonaws.com"]),
     JNumber}

\* the documents handed to the parser: arrays of records, objects with the
\* records under "Records", objects with another value under "Records", an
\* object without "Records", scalars, and text that is not JSON
Documents ==
    {JArray(recs) : recs \in SeqsUpTo(RawRecords, MaxEvents)}
    \cup {JObject([Records |-> JArray(recs)]) : recs \in SeqsUpTo(RawRecords, MaxEvents)}
    \cup {JObject([Records |-> v]) :
            v \in {JNumber, JNull, JString(0), JString(2),
                   JObject([eventName |-> "ListUsers"])}}
    \cup {JObject([not_records |-> JArray(<<>>)]), JNumber, JNull, JString(2), NotJson}

\* what utcnow() may return
Clock == {Naive(34), Naive(47)}

InitParser ==
    /\ pc = "parser"
    /\ events = <<>>
    /\ sklearn = TRUE
    /\ ml_threshold = 0
    /\ document \in [exists : BOOLEAN, content : Documents]
    /\ parsed = NoDocument
    /\ event_counts = <<>>
    /\ event_name_entropy = <<>>
    /\ mvp_output = <<>>
    /\ features = <<>>
    /\ results = <<>>
    /\ risk_scores = <<>>
    /\ ranked = <<>>
    /\ vectors = <<>>
    /\ ApiIdle

\* events = parse_raw_json(content), the content being in hand
ParseRawJson ==
    /\ pc = "parser"
    /\ parsed = NoDocument
    /\ document.exists
    /\ \E now \in Clock :
          parsed' = [by |-> "parse_raw_json"] @@ parse_raw_json(document.content, now)
    /\ UNCHANGED <<pipeline, sklearn, api, document, event_counts, event_name_entropy, mvp_output>>

\* events = parse_file(path)
ParseFile ==
    /\ pc = "parser"
    /\ parsed = NoDocument
    /\ \E now \in Clock :
          parsed' = [by |-> "parse_file"] @@ parse_file(document, now)
    /\ UNCHANGED <<pipeline, sklearn, api, document, event_counts, event_name_entropy, mvp_output>>

NextParser == ParseRawJson \/ ParseFile

SpecParser == InitParser /\ [][NextParser]_vars

----------------------------------------------------------------------------
(* feature_engineer.py: _entropy.  With total T and counts c, the sum      *)
(*   -sum((c/T) * log2(c/T)) = log2(T^T / prod(c^c)) / T,                  *)
(* so an entropy is kept as the integers T, T^T and prod(c^c) over the     *)
(* buckets with c > 0, and a sign: its value is                            *)
(* sign * log2(num / den) / total, and 0.0 for total = 0.  The floats of   *)
(* the code differ from this value by rounding in the last bits only; for  *)
(* one bucket p is exactly 1.0 and log2(p) exactly 0.0.                    *)

RECURSIVE Pow(_, _)
Pow(b, e) == IF e = 0 THEN 1 ELSE b * Pow(b, e - 1)

\* sum(counts.values())
HistogramTotal(counts) == SumSeq([i \in 1..Len(counts) |-> counts[i].pts])

\* the product of c^c over the buckets with c > 0
RECURSIVE SelfPowerProduct(_)
SelfPowerProduct(counts) ==
    IF counts = <<>> THEN 1
    ELSE (IF Head(counts).pts > 0 THEN Pow(Head(counts).pts, Head(counts).pts) ELSE 1)
            * SelfPowerProduct(Tail(counts))

Entropy(total, sign, num, den) == [total |-> total, sign |-> sign, num |-> num, den |-> den]

\* mutant: the sum is returned without the minus sign
entropy_not_negated(counts) ==
    LET total == HistogramTotal(counts)
    IN  IF total = 0 THEN Entropy(0, 1, 1, 1)
        ELSE Entropy(total, -1, Pow(total, total), SelfPowerProduct(counts))

\* mutant: log2(c) is taken in place of log2(c / total)
entropy_log_of_count(counts) ==
    LET total == HistogramTotal(counts)
    IN  IF total = 0 THEN Entropy(0, 1, 1, 1)
        ELSE Entropy(total, -1, SelfPowerProduct(counts), 1)

\* _entropy(counts)
entropy(counts) ==
    LET total == HistogramTotal(counts)
    IN  IF total = 0 THEN Entropy(0, 1, 1, 1)
        ELSE Entropy(total, 1, Pow(total, total), SelfPowerProduct(counts))

\* h == 0.0
EntropyIsZero(h) == h.num = h.den

\* a <= b for the entropies of two histograms with the same total, whose
\* magnitudes have the same num
EntropyLeq(a, b) ==
    CASE a.sign = 1 /\ b.sign = 1 -> a.den >= b.den
      [] a.sign = -1 /\ b.sign = -1 -> a.den <= b.den
      [] a.sign = -1 /\ b.sign = 1 -> TRUE
      [] OTHER -> EntropyIsZero(a) /\ EntropyIsZero(b)

\* the action names of the histograms, in the order of first occurrence
ActionNames == <<"ListUsers", "CreateUser", "GetObject", "AssumeRole">>

\* Counter-like dicts over the first k action names with a total within the
\* bound; Counter(e.event_name for e in user_evts) has positive counts only
HistogramsOver(lowest) ==
    UNION {{[i \in 1..k |-> [key |-> ActionNames[i], pts |-> c[i]]] :
               c \in {x \in [1..k -> lowest..MaxHistogramTotal] :
                         SumSeq(x) <= MaxHistogramTotal}} :
           k \in 0..Len(ActionNames)}

InitEntropy ==
    /\ pc = "counted"
    /\ events = <<>>
    /\ sklearn = TRUE
    /\ ml_threshold = 0
    /\ event_counts \in
          {<<h>> : h \in HistogramsOver(0)}
          \cup {ab \in HistogramsOver(1) \X HistogramsOver(1) :
                    HistogramTotal(ab[1]) = HistogramTotal(ab[2])}
    /\ event_name_entropy = <<>>
    /\ document = NoDocument
    /\ parsed = NoDocument
    /\ mvp_output = <<>>
    /\ features = <<>>
    /\ results = <<>>
    /\ risk_scores = <<>>
    /\ ranked = <<>>
    /\ vectors = <<>>
    /\ ApiIdle

\* event_name_entropy = _entropy(dict(event_name_counter)), for each account
EntropyOfCounts ==
    /\ pc = "counted"
    /\ pc' = "entropy"
    /\ event_name_entropy' = [i \in 1..Len(event_counts) |-> entropy(event_counts[i])]
    /\ UNCHANGED <<events, ml_threshold, features, results, risk_scores, ranked, vectors,
                   sklearn, api, document, parsed, event_counts, mvp_output>>

NextEntropy == EntropyOfCounts

SpecEntropy == InitEntropy /\ [][NextEntropy]_vars

----------------------------------------------------------------------------
(* iam-mvp/detector.py: the single-file detector, run on the batch the     *)
(* pipeline above is run on.                                               *)

\* the result carries the ML flag
MlFlagged(r) == r.detection_method \in {"ml", "both"}

MVP_ADMIN_EVENTS ==
    {"CreateUser", "DeleteUser", "AttachUserPolicy", "DetachUserPolicy",
     "PutUserPolicy", "CreateRole", "AttachRolePolicy", "CreateAccessKey"}

\* the dict iam-mvp/parser.py builds for the event the SaaS parser returns
\* as e: the same values, the region under "region"
mvp_event(e) ==
    [user_arn |-> e.user_arn, event_time |-> e.event_time, event_name |-> e.event_name,
     region |-> e.aws_region, source_ip |-> e.source_ip, mfa_used |-> e.mfa_used,
     error_code |-> e.error_code, is_high_risk |-> e.is_high_risk]

\* the loop over evts in extract_features: batch order, no sort
RECURSIVE mvp_max_consec(_, _, _)
mvp_max_consec(evts, cur_consec, max_consec) ==
    IF evts = <<>> THEN max_consec
    ELSE IF Truthy(Head(evts).error_code)
         THEN mvp_max_consec(Tail(evts), cur_consec + 1, Max(max_consec, cur_consec + 1))
         ELSE mvp_max_consec(Tail(evts), 0, max_consec)

mvp_UserFeatures(arn, evts) ==
    [user_arn |-> arn,
     total_events |-> Len(evts),
     off_hours_events |-> Count(evts, LAMBDA e : Hour(e.event_time) >= 22 \/ Hour(e.event_time) < 6),
     high_risk_events |-> Count(evts, LAMBDA e : e.is_high_risk),
     mfa_missing_high_risk |-> Count(evts, LAMBDA e : e.is_high_risk /\ ~e.mfa_used),
     unique_ips |-> Cardinality({e.source_ip : e \in Range(evts)}),
     failed_events |-> Count(evts, LAMBDA e : Truthy(e.error_code)),
     consecutive_failures |-> mvp_max_consec(evts, 0, 0),
     admin_action_count |-> Count(evts, LAMBDA e : e.event_name \in MVP_ADMIN_EVENTS),
     unique_regions |-> Cardinality({e.region : e \in Range(evts)})]

mvp_extract_features(evts) ==
    LET arns == ArnOrder(evts, <<>>)
    IN  [i \in 1..Len(arns) |-> mvp_UserFeatures(arns[i], EventsOf(evts, arns[i]))]

MVP_RULES ==
    <<[id |-> "R01_OFF_HOURS", pts |-> 10],
      [id |-> "R02_HIGH_RISK_RATIO", pts |-> 15],
      [id |-> "R03_NO_MFA", pts |-> 20],
      [id |-> "R04_MULTI_IP", pts |-> 10],
      [id |-> "R05_HIGH_FAIL_RATE", pts |-> 15],
      [id |-> "R06_CONSEC_FAIL", pts |-> 20],
      [id |-> "R07_ADMIN_ABUSE", pts |-> 18],
      [id |-> "R08_MULTI_REGION", pts |-> 8],
      [id |-> "R09_EVENT_BURST", pts |-> 10]>>

\* the check of the k-th entry of RULES
mvp_check(k, uf) ==
    LET total == Max(uf.total_events, 1)
    IN  CASE k = 1 -> RatioExceeds(uf.off_hours_events, total, 30)
          [] k = 2 -> RatioExceeds(uf.high_risk_events, total, 20)
          [] k = 3 -> uf.mfa_missing_high_risk >= 1
          [] k = 4 -> uf.unique_ips >= 3
          [] k = 5 -> RatioExceeds(uf.failed_events, total, 40)
          [] k = 6 -> uf.consecutive_failures >= 5
          [] k = 7 -> uf.admin_action_count >= 5
          [] k = 8 -> uf.unique_regions >= 2
          [] k = 9 -> uf.total_events > 100

\* [rid for rid, _, check in RULES if check(uf)]
mvp_triggered(uf) ==
    LET hit == SelectSeq([k \in 1..Len(MVP_RULES) |-> k], LAMBDA k : mvp_check(k, uf))
    IN  [i \in 1..Len(hit) |-> MVP_RULES[hit[i]].id]

mvp_risk_level(score) ==
    IF score >= 80 THEN "CRITICAL"
    ELSE IF score >= 60 THEN "HIGH"
    ELSE IF score >= 40 THEN "MEDIUM"
    ELSE "LOW"

\* _score: the capped total and the breakdown
mvp_score(uf, triggered, ml_anomaly) ==
    LET hit == SelectSeq(MVP_RULES, LAMBDA r : r.id \in Range(triggered))
        b1 == [i \in 1..Len(hit) |-> [key |-> hit[i].id, pts |-> hit[i].pts]]
        total1 == SumSeq([i \in 1..Len(hit) |-> hit[i].pts])
        b2 == IF ml_anomaly THEN DictSet(b1, "ML_ANOMALY", 15) ELSE b1
        total2 == IF ml_anomaly THEN total1 + 15 ELSE total1
        penalty == Min(uf.consecutive_failures, 10)
        b3 == IF penalty > 0 THEN DictSet(b2, "CONSEC_PENALTY", penalty) ELSE b2
        total3 == IF penalty > 0 THEN total2 + penalty ELSE total2
    IN  [score |-> Min(total3, 100), breakdown |-> b3]

\* the dict detect appends for one account; ml_hit is ml_result.get(arn, False)
mvp_result(uf, ml_hit) ==
    LET triggered == mvp_triggered(uf)
        rule_hit == Len(triggered) > 0
        sc == mvp_score(uf, triggered, ml_hit)
    IN  [user_arn |-> uf.user_arn,
         is_anomaly |-> rule_hit \/ ml_hit,
         risk_score |-> Round2(sc.score),
         risk_level |-> mvp_risk_level(sc.score),
         detection_method |-> Method(rule_hit, ml_hit),
         triggered_rules |-> triggered,
         score_breakdown |-> sc.breakdown]

\* detect(events), with the flags of _ml_anomalies given as the set of
\* flagged accounts
mvp_detect(evts, ml_flagged) ==
    LET features_list == mvp_extract_features(evts)
    IN  SortedByRiskScoreDesc(
            [i \in 1..Len(features_list) |->
                mvp_result(features_list[i], features_list[i].user_arn \in ml_flagged)])

\* events of one account that differ in time, outcome, source IP and region,
\* an empty string standing where CloudTrail gave no sourceIPAddress or
\* awsRegion, and single events with another action name or account
DriftEvents ==
    {CloudTrailEvent(Accounts[1], te[1], "ListUsers", te[2], TRUE, ir[1], ir[2]) :
        te \in {<<Aware(33, 0), "AccessDenied">>, <<Aware(34, 0), "">>,
                <<Aware(35, 0), "AccessDenied">>},
        ir \in {<<"10.0.0.1", "us-east-1">>, <<"10.0.0.2", "us-east-1">>, <<"", "">>}}
    \cup {CloudTrailEvent(Accounts[1], Aware(34, 0), "CreateUser", "", TRUE,
                          "10.0.0.1", "us-east-1"),
          CloudTrailEvent(Accounts[2], Aware(34, 0), "ListUsers", "", TRUE,
                          "10.0.0.1", "us-east-1")}

\* five events of one account with an action name that only one of the two
\* ADMIN_EVENTS sets holds
AdminBatches ==
    {[i \in 1..5 |-> CloudTrailEvent(Accounts[1], Aware(33 + i, 0), name, "", TRUE,
                                     "10.0.0.1", "us-east-1")] :
        name \in {"DeleteUser", "AssumeRole", "CreateUser"}}

InitMvp ==
    /\ pc = "start"
    /\ events \in SeqsUpTo(DriftEvents, MaxEvents) \cup AdminBatches
    /\ sklearn = TRUE
    /\ ml_threshold \in Thresholds
    /\ Empty

\* the MVP detector runs on the batch the pipeline has scored, with the ML
\* flags the pipeline's results carry
MvpDetect ==
    /\ pc = "scored"
    /\ pc' = "compared"
    /\ mvp_output' = mvp_detect([i \in 1..Len(events) |-> mvp_event(events[i])],
                                {r.user_arn : r \in {x \in Range(results) : MlFlagged(x)}})
    /\ UNCHANGED <<events, sklearn, ml_threshold, features, results, risk_scores, ranked,
                   vectors, api, document, parsed, event_counts, event_name_entropy>>

NextMvp == Extract \/ Detect \/ Score \/ MvpDetect

SpecMvp == InitMvp /\ [][NextMvp]_vars

----------------------------------------------------------------------------
(* Properties *)

Detected == pc \in {"detected", "scored", "ranked"}

Scored == pc \in {"scored", "ranked"}

BreakdownTotal(rs) == SumSeq([i \in 1..Len(rs.score_breakdown) |-> rs.score_breakdown[i].pts])

\* C1: with fewer than 2 accounts, or without the outlier library, detection
\* with the default threshold 0.0 flags no account through the ML signal: no
\* result has detection_method "ml" or "both" and no ML bonus is added.
C1_NoMlFlagWhenDegraded ==
    (Detected /\ ml_threshold = 0 /\ (Len(features) < 2 \/ ~sklearn)) =>
        /\ \A i \in 1..Len(results) : ~MlFlagged(results[i])
        /\ \A i \in 1..Len(risk_scores) :
              "ML_ANOMALY" \notin DictKeys(risk_scores[i].score_breakdown)

\* C2: every risk score lies in 0..100, whatever rules, ML flag and failure
\* run the account has.
C2_ScoreInRange ==
    \A i \in 1..Len(risk_scores) :
        risk_scores[i].score >= 0 /\ risk_scores[i].score <= 100

\* C2 witness: an account whose uncapped sum is 151 is scored 100.
C2_Witness ==
    /\ Scored
    /\ \E i \in 1..Len(risk_scores) :
          BreakdownTotal(risk_scores[i]) = 151 /\ risk_scores[i].score = 100

\* C3: detection_method is "both" iff a rule triggered and the ML flag
\* (score <= threshold) is set, "rule" iff only rules, "ml" iff only the ML
\* flag, "none" iff neither; is_anomaly iff detection_method is not "none".
C3_MethodConsistent ==
    \A i \in 1..Len(results) :
        LET r == results[i]
            rule == Len(r.triggered_rules) > 0
            ml == r.ml_anomaly_score <= ml_threshold
        IN  /\ (r.detection_method = "both") <=> (rule /\ ml)
            /\ (r.detection_method = "rule") <=> (rule /\ ~ml)
            /\ (r.detection_method = "ml") <=> (~rule /\ ml)
            /\ (r.detection_method = "none") <=> (~rule /\ ~ml)
            /\ r.is_anomaly <=> (r.detection_method # "none")

\* C3 witness: one detection run with a "both", an "ml" and a "none" account,
\* the forest having scored them on both sides of the threshold.
C3_Witness ==
    /\ pc = "detected"
    /\ \E i, j, k \in 1..Len(results) :
          /\ results[i].detection_method = "both"
          /\ results[j].detection_method = "ml"
          /\ results[k].detection_method = "none"
          /\ results[k].ml_anomaly_score > ml_threshold

\* C4: the level is a function of the reported score alone: CRITICAL iff
\* score >= 80, HIGH iff 60 <= score < 80, MEDIUM iff 40 <= score < 60,
\* LOW iff score < 40.
C4_LevelFromScore ==
    \A i \in 1..Len(risk_scores) :
        LET rs == risk_scores[i]
        IN  /\ (rs.level = "CRITICAL") <=> (rs.score >= 80)
            /\ (rs.level = "HIGH") <=> (rs.score >= 60 /\ rs.score < 80)
            /\ (rs.level = "MEDIUM") <=> (rs.score >= 40 /\ rs.score < 60)
            /\ (rs.level = "LOW") <=> (rs.score < 40)

\* C4 witness: an account scored exactly 60, on the HIGH boundary.
C4_Witness ==
    /\ Scored
    /\ \E i \in 1..Len(risk_scores) :
          risk_scores[i].score = 60 /\ risk_scores[i].level = "HIGH"

\* the base points as the claim lists them for R01..R09
C5_Points ==
    [R01_OFF_HOURS_ACCESS |-> 10, R02_HIGH_RISK_RATIO |-> 15,
     R03_HIGH_RISK_NO_MFA |-> 20, R04_MULTIPLE_SOURCE_IPS |-> 10,
     R05_HIGH_FAILURE_RATE |-> 15, R06_CONSECUTIVE_FAILURES |-> 20,
     R07_EXCESSIVE_ADMIN_ACTIONS |-> 18, R08_MULTI_REGION_ACTIVITY |-> 8,
     R09_EVENT_BURST |-> 10]

\* C5: the score is min(100, base points of the triggered rules + 15 if the ML
\* flag is set + min(consecutive_failures, 10)); the breakdown has exactly one
\* entry per triggered rule with its base points, ML_ANOMALY = 15 iff the ML
\* flag is set, CONSECUTIVE_FAIL_PENALTY = min(consecutive_failures, 10) iff
\* consecutive_failures > 0.
C5_AdditiveCapped ==
    Scored =>
    \A i \in 1..Len(risk_scores) :
        LET rs == risk_scores[i]
            r == results[i]
            uf == features[i]
            b == rs.score_breakdown
            rules == Range(r.triggered_rules)
            ml == MlFlagged(r)
            cf == uf.consecutive_failures
            sum == SumSeq([k \in 1..Len(r.triggered_rules) |-> C5_Points[r.triggered_rules[k]]])
                   + (IF ml THEN 15 ELSE 0) + Min(cf, 10)
        IN  /\ rs.score = Min(100, sum)
            /\ DictKeys(b) = rules \cup (IF ml THEN {"ML_ANOMALY"} ELSE {})
                                   \cup (IF cf > 0 THEN {"CONSECUTIVE_FAIL_PENALTY"} ELSE {})
            /\ Len(b) = Cardinality(DictKeys(b))
            /\ \A x \in rules : DictGet(b, x) = C5_Points[x]
            /\ ml => DictGet(b, "ML_ANOMALY") = 15
            /\ cf > 0 => DictGet(b, "CONSECUTIVE_FAIL_PENALTY") = Min(cf, 10)

\* C5 witness: a scored account with rule entries, the ML bonus and a capped
\* penalty, whose sum stays below the cap.
C5_Witness ==
    /\ Scored
    /\ \E i \in 1..Len(risk_scores) :
          /\ Len(results[i].triggered_rules) >= 2
          /\ MlFlagged(results[i])
          /\ features[i].consecutive_failures > 10
          /\ risk_scores[i].score < 100
          /\ Len(risk_scores[i].score_breakdown) = Len(results[i].triggered_rules) + 2

\* the rule catalog in its order
C6_Catalog ==
    <<"R01_OFF_HOURS_ACCESS", "R02_HIGH_RISK_RATIO", "R03_HIGH_RISK_NO_MFA",
      "R04_MULTIPLE_SOURCE_IPS", "R05_HIGH_FAILURE_RATE", "R06_CONSECUTIVE_FAILURES",
      "R07_EXCESSIVE_ADMIN_ACTIONS", "R08_MULTI_REGION_ACTIVITY", "R09_EVENT_BURST">>

\* the predicate the claim states for each rule
C6_Holds(rule, uf) ==
    CASE rule = "R01_OFF_HOURS_ACCESS" -> 10 * uf.off_hours_event_count > 3 * uf.total_events
      [] rule = "R02_HIGH_RISK_RATIO" -> 5 * uf.high_risk_event_count > uf.total_events
      [] rule = "R03_HIGH_RISK_NO_MFA" -> uf.mfa_missing_high_risk >= 1
      [] rule = "R04_MULTIPLE_SOURCE_IPS" -> uf.unique_ips >= 3
      [] rule = "R05_HIGH_FAILURE_RATE" -> 5 * uf.failed_event_count > 2 * uf.total_events
      [] rule = "R06_CONSECUTIVE_FAILURES" -> uf.consecutive_failures >= 5
      [] rule = "R07_EXCESSIVE_ADMIN_ACTIONS" -> uf.admin_action_count >= 5
      [] rule = "R08_MULTI_REGION_ACTIVITY" -> uf.unique_regions >= 2
      [] rule = "R09_EVENT_BURST" -> uf.total_events > 100

\* C6: the triggered rules are exactly the catalog-ordered, duplicate-free
\* subset of the nine rules whose predicate holds, each judged on its own
\* (strict ratios: exactly 30%, 20%, 40% and exactly 100 events do not trigger).
C6_CatalogSubset ==
    Detected =>
    \A i \in 1..Len(results) :
        results[i].triggered_rules =
            SelectSeq(C6_Catalog, LAMBDA rule : C6_Holds(rule, features[i]))

\* C6 witness: 100 events with exactly 30% off-hours, 20% high-risk and 40%
\* failed trigger none of the ratio rules nor the burst rule, yet the count
\* rules trigger.
C6_Witness ==
    /\ pc = "detected"
    /\ \E i \in 1..Len(results) :
          LET uf == features[i]
          IN  /\ uf.total_events = 100
              /\ uf.off_hours_event_count = 30
              /\ uf.high_risk_event_count = 20
              /\ uf.failed_event_count = 40
              /\ results[i].triggered_rules =
                   <<"R03_HIGH_RISK_NO_MFA", "R04_MULTIPLE_SOURCE_IPS",
                     "R06_CONSECUTIVE_FAILURES", "R07_EXCESSIVE_ADMIN_ACTIONS",
                     "R08_MULTI_REGION_ACTIVITY">>

\* the orderings of a list
Orderings(s) ==
    {[i \in 1..Len(s) |-> s[p[i]]] :
        p \in {q \in [1..Len(s) -> 1..Len(s)] : \A i, j \in 1..Len(s) : q[i] = q[j] => i = j}}

\* the account's events carry pairwise different timestamps
DistinctTimes(user_evts) ==
    \A i, j \in 1..Len(user_evts) :
        i # j => ~(/\ TimeLeq(user_evts[i].event_time, user_evts[j].event_time)
                   /\ TimeLeq(user_evts[j].event_time, user_evts[i].event_time))

UtcHour(dt) == Instant(dt) % 24

\* C8: an event counts as off-hours iff the UTC hour of its instant is >= 22
\* or < 6, whatever offset its timestamp carries (naive taken as UTC).
C8_OffHoursByUtcHour ==
    pc = "features" =>
    \A i \in 1..Len(features) :
        features[i].off_hours_event_count =
            Count(EventsOf(events, features[i].user_arn),
                  LAMBDA e : UtcHour(e.event_time) >= 22 \/ UtcHour(e.event_time) < 6)

\* the account ids of a list of records
ArnSeq(s) == [i \in 1..Len(s) |-> s[i].user_arn]

\* the list holds exactly one record for each id of S and none for another id
OnePerAccount(s, S) ==
    /\ Range(ArnSeq(s)) = S
    /\ Len(s) = Cardinality(S)

StableDescending(r, s) ==
    /\ Len(r) = Len(s)
    /\ \E q \in {f \in [1..Len(s) -> 1..Len(s)] : \A i, j \in 1..Len(s) : f[i] = f[j] => i = j} :
          /\ \A i \in 1..Len(s) : r[i] = s[q[i]]
          /\ \A i, j \in 1..Len(s) :
                i < j => /\ r[i].score >= r[j].score
                         /\ (r[i].score = r[j].score => q[i] < q[j])

\* C10: rank_users returns a permutation of its input in non-increasing score
\* order, equal scores keeping their input order, and leaves the input list
\* and its elements unmodified.
C10_RankStable ==
    [][(pc = "scored" /\ pc' = "ranked") =>
          /\ risk_scores' = risk_scores
          /\ StableDescending(ranked', risk_scores)]_vars

\* C10 witness: three ranked accounts, two of them tied and ahead of the
\* account that came first in the input.
C10_Witness ==
    /\ pc = "ranked"
    /\ Len(ranked) = 3
    /\ ranked[1].score = ranked[2].score
    /\ ranked[2].score > ranked[3].score
    /\ ranked[3] = risk_scores[1]
    /\ ranked[1] = risk_scores[2]

\* the remediation sentence of a rule, for the six rules that have one
SentenceOf ==
    [r \in {"R01_OFF_HOURS_ACCESS", "R03_HIGH_RISK_NO_MFA", "R04_MULTIPLE_SOURCE_IPS",
            "R06_CONSECUTIVE_FAILURES", "R07_EXCESSIVE_ADMIN_ACTIONS",
            "R08_MULTI_REGION_ACTIVITY"} |->
        CASE r = "R01_OFF_HOURS_ACCESS" -> REC_NIGHT
          [] r = "R03_HIGH_RISK_NO_MFA" -> REC_MFA
          [] r = "R04_MULTIPLE_SOURCE_IPS" -> REC_IP
          [] r = "R06_CONSECUTIVE_FAILURES" -> REC_LOCK
          [] r = "R07_EXCESSIVE_ADMIN_ACTIONS" -> REC_POLP
          [] r = "R08_MULTI_REGION_ACTIVITY" -> REC_SCP]

\* the rules with a sentence, in the order of the rule catalog
CatalogSentenceOrder ==
    <<"R01_OFF_HOURS_ACCESS", "R03_HIGH_RISK_NO_MFA", "R04_MULTIPLE_SOURCE_IPS",
      "R06_CONSECUTIVE_FAILURES", "R07_EXCESSIVE_ADMIN_ACTIONS", "R08_MULTI_REGION_ACTIVITY">>

\* the same rules by descending base points
UrgencySentenceOrder ==
    <<"R03_HIGH_RISK_NO_MFA", "R06_CONSECUTIVE_FAILURES", "R07_EXCESSIVE_ADMIN_ACTIONS",
      "R04_MULTIPLE_SOURCE_IPS", "R01_OFF_HOURS_ACCESS", "R08_MULTI_REGION_ACTIVITY">>

\* the sentences of the triggered rules, taken in the given order of rule ids
RECURSIVE SentencesIn(_, _)
SentencesIn(order, triggered) ==
    IF order = <<>> THEN <<>>
    ELSE (IF Head(order) \in triggered THEN <<SentenceOf[Head(order)]>> ELSE <<>>)
         \o SentencesIn(Tail(order), triggered)

\* urgent directive iff CRITICAL, then the rule sentences, then the ML sentence
OrderedAdvice(order, i) ==
    (IF risk_scores[i].level = "CRITICAL" THEN <<REC_URGENT>> ELSE <<>>)
    \o SentencesIn(order, Range(results[i].triggered_rules))
    \o (IF MlFlagged(results[i]) THEN <<REC_ML>> ELSE <<>>)

RecommendationsFollow(order) ==
    Scored => \A i \in 1..Len(risk_scores) :
        OrderedAdvice(order, i) # <<>> =>
            risk_scores[i].recommendations = OrderedAdvice(order, i)

\* C11 as stated: the recommendations are the urgent directive first exactly
\* when the level is CRITICAL, then one remediation sentence per triggered rule
\* that has one, in catalog order of the rule ids, then the generic ML sentence
\* when the ML layer contributed.
C11_CatalogOrder == RecommendationsFollow(CatalogSentenceOrder)

\* C11 amended: as above, but the rule sentences come in the fixed order
\* R03, R06, R07, R04, R01, R08 (descending base points), not in catalog order.
C11_UrgencyOrder == RecommendationsFollow(UrgencySentenceOrder)

\* C11 witness: a CRITICAL account flagged by the ML layer with R01 and R03
\* triggered, whose MFA sentence stands before its off-hours sentence.
C11_Witness ==
    /\ Scored
    /\ \E i \in 1..Len(risk_scores) :
          /\ risk_scores[i].level = "CRITICAL"
          /\ MlFlagged(results[i])
          /\ {"R01_OFF_HOURS_ACCESS", "R03_HIGH_RISK_NO_MFA"}
                \subseteq Range(results[i].triggered_rules)
          /\ Len(risk_scores[i].recommendations) >= 4
          /\ risk_scores[i].recommendations[1] = REC_URGENT
          /\ risk_scores[i].recommendations[2] = REC_MFA

\* C16: the recommendations list is never empty; the "no action needed"
\* sentence is in it exactly when no rule sentence, no ML sentence and no
\* urgent directive was generated, and then it is the only element.
C16_NeverEmpty ==
    Scored => \A i \in 1..Len(risk_scores) :
        LET recs == risk_scores[i].recommendations
            nothing == /\ Range(results[i].triggered_rules) \cap DOMAIN SentenceOf = {}
                       /\ ~MlFlagged(results[i])
                       /\ risk_scores[i].level # "CRITICAL"
        IN  /\ Len(recs) >= 1
            /\ (REC_NONE \in Range(recs)) <=> nothing
            /\ nothing => recs = <<REC_NONE>>

\* C16 witness: an account with only a rule that has no sentence (R02), not
\* flagged by the ML layer and below CRITICAL, is told that no action is needed.
C16_Witness ==
    /\ Scored
    /\ \E i \in 1..Len(risk_scores) :
          /\ results[i].triggered_rules = <<"R02_HIGH_RISK_RATIO">>
          /\ ~MlFlagged(results[i])
          /\ risk_scores[i].recommendations = <<REC_NONE>>

\* the events of an account in the batch
BatchEventsOf(arn) == {e \in Range(events) : e.user_arn = arn}

\* the account has 4 events, all high-privilege, none with MFA, from 1 address
FourHighRiskNoMfa(arn) ==
    /\ Len(EventsOf(events, arn)) = 4
    /\ \A e \in BatchEventsOf(arn) : e.event_name \in HIGH_RISK_EVENTS /\ ~e.mfa_used
    /\ Cardinality({e.source_ip : e \in BatchEventsOf(arn)}) = 1

\* C12 as stated: an account with 4 events, all high-privilege, none with MFA,
\* from 1 source address triggers HIGH_RISK_NO_MFA and HIGH_RISK_RATIO, has
\* score >= 35 and has level MEDIUM or higher.
C12_AtLeastMedium ==
    Scored => \A i \in 1..Len(risk_scores) :
        FourHighRiskNoMfa(risk_scores[i].user_arn) =>
            /\ {"R03_HIGH_RISK_NO_MFA", "R02_HIGH_RISK_RATIO"}
                  \subseteq Range(results[i].triggered_rules)
            /\ risk_scores[i].score >= 35
            /\ risk_scores[i].level \in {"MEDIUM", "HIGH", "CRITICAL"}

\* C12 amended: such an account triggers both rules and has score >= 35; its
\* level is LOW while the score stays below 40 (35 when nothing else
\* contributes) and MEDIUM or higher from 40 points on.
C12_LowBelow40 ==
    Scored => \A i \in 1..Len(risk_scores) :
        FourHighRiskNoMfa(risk_scores[i].user_arn) =>
            /\ {"R03_HIGH_RISK_NO_MFA", "R02_HIGH_RISK_RATIO"}
                  \subseteq Range(results[i].triggered_rules)
            /\ risk_scores[i].score >= 35
            /\ risk_scores[i].score < 40 => risk_scores[i].level = "LOW"
            /\ risk_scores[i].score >= 40 =>
                  risk_scores[i].level \in {"MEDIUM", "HIGH", "CRITICAL"}

\* C12 witness: such an account with exactly the two rules, 35 points and LOW.
C12_Witness ==
    /\ Scored
    /\ \E i \in 1..Len(risk_scores) :
          /\ FourHighRiskNoMfa(risk_scores[i].user_arn)
          /\ results[i].triggered_rules = <<"R02_HIGH_RISK_RATIO", "R03_HIGH_RISK_NO_MFA">>
          /\ risk_scores[i].score = 35
          /\ risk_scores[i].level = "LOW"

\* the failed events a..b of an account form a run: every event of the
\* account that is not before a and not after b in time has failed
IsFailureRun(arn, a, b) ==
    /\ TimeLeq(a.event_time, b.event_time)
    /\ \A e \in BatchEventsOf(arn) :
          (TimeLeq(a.event_time, e.event_time) /\ TimeLeq(e.event_time, b.event_time))
              => Truthy(e.error_code)

RunLength(arn, a, b) ==
    Cardinality({e \in BatchEventsOf(arn) :
                    TimeLeq(a.event_time, e.event_time) /\ TimeLeq(e.event_time, b.event_time)})

\* the longest time-ordered failure run of an account whose events have
\* pairwise different times
LongestFailureRun(arn) ==
    LET lens == {RunLength(arn, a, b) : <<a, b>> \in
                    {p \in BatchEventsOf(arn) \X BatchEventsOf(arn) : IsFailureRun(arn, p[1], p[2])}}
    IN  IF lens = {} THEN 0 ELSE CHOOSE k \in lens : \A m \in lens : m <= k

\* C13: an account whose longest time-ordered failure run is k >= 5 triggers
\* CONSECUTIVE_FAILURES, has a consecutive-failure penalty of exactly
\* min(k, 10) points in its breakdown, and has is_anomaly = true.
C13_FailureRunPenalty ==
    Scored => \A i \in 1..Len(risk_scores) :
        LET arn == risk_scores[i].user_arn
            k == LongestFailureRun(arn)
        IN  (DistinctTimes(EventsOf(events, arn)) /\ k >= 5) =>
               /\ "R06_CONSECUTIVE_FAILURES" \in Range(results[i].triggered_rules)
               /\ "CONSECUTIVE_FAIL_PENALTY" \in DictKeys(risk_scores[i].score_breakdown)
               /\ DictGet(risk_scores[i].score_breakdown, "CONSECUTIVE_FAIL_PENALTY") = Min(k, 10)
               /\ results[i].is_anomaly

\* C13 witness: events 3 to 7 of the account fail and the others succeed, the
\* batch is not in time order, and the penalty is 5.
C13_Witness ==
    /\ Scored
    /\ Len(events) = MaxRun
    /\ events[2].event_time = Aware(33, 0)
    /\ \A e \in Range(events) :
          Truthy(e.error_code) <=> (Instant(e.event_time) - 30) \in 3..7
    /\ LongestFailureRun(Accounts[3]) = 5
    /\ DictGet(risk_scores[1].score_breakdown, "CONSECUTIVE_FAIL_PENALTY") = 5
    /\ results[1].is_anomaly

\* C17: for a feature summary with total_events = 0, RuleEngine.evaluate and
\* features_to_vector use a denominator of 1 and raise no error; the three
\* ratio rules (OFF_HOURS_ACCESS, HIGH_RISK_RATIO, HIGH_FAILURE_RATE) do not
\* trigger when their numerator is 0, and the three ratios of the vector are
\* then 0.
C17_ZeroTotalSafe ==
    Detected => \A i \in 1..Len(features) :
        features[i].total_events = 0 =>
            LET uf == features[i]
                rules == Range(results[i].triggered_rules)
                ratios == IF vectors = <<>> THEN {}
                          ELSE {<<vectors[i].off_hours_ratio, uf.off_hours_event_count>>,
                                <<vectors[i].high_risk_ratio, uf.high_risk_event_count>>,
                                <<vectors[i].failure_ratio, uf.failed_event_count>>}
            IN  /\ "R01_OFF_HOURS_ACCESS" \in rules <=> 100 * uf.off_hours_event_count > 30 * 1
                /\ "R02_HIGH_RISK_RATIO" \in rules <=> 100 * uf.high_risk_event_count > 20 * 1
                /\ "R05_HIGH_FAILURE_RATE" \in rules <=> 100 * uf.failed_event_count > 40 * 1
                /\ uf.off_hours_event_count = 0 => "R01_OFF_HOURS_ACCESS" \notin rules
                /\ uf.high_risk_event_count = 0 => "R02_HIGH_RISK_RATIO" \notin rules
                /\ uf.failed_event_count = 0 => "R05_HIGH_FAILURE_RATE" \notin rules
                /\ \A r \in ratios :
                      /\ ~r[1].ZeroDivisionError
                      /\ r[1].den = 1
                      /\ r[1].num = r[2]
                      /\ r[2] = 0 => r[1].num = 0

\* C17 witness: the detector has built the vectors of two summaries with
\* total_events = 0, one with all numerators 0 and no rule triggered, the
\* other with a failed event and HIGH_FAILURE_RATE triggered.
C17_Witness ==
    /\ Detected
    /\ Len(vectors) = 2
    /\ features[1].total_events = 0 /\ features[2].total_events = 0
    /\ results[1].triggered_rules = <<>>
    /\ vectors[1].failure_ratio = Quotient(0, 1)
    /\ vectors[1].high_risk_ratio = Quotient(0, 1)
    /\ vectors[1].off_hours_ratio = Quotient(0, 1)
    /\ features[2].failed_event_count = 1
    /\ "R05_HIGH_FAILURE_RATE" \in Range(results[2].triggered_rules)

\* the last request was a GET /risk-summary that was answered with a summary
SummaryServed == response.op = "risk-summary" /\ response.code = 200

\* the number of the session's records at a level
CountAtLevel(session_id, l) ==
    Cardinality({i \in 1..Len(records) :
                    records[i].session_id = session_id /\ records[i].risk_level = l})

\* C15: GET /risk-summary returns in summary the min(top_n, number of
\* records) highest-scoring records of the session in non-increasing score
\* order with ranks 1..k; the four level counts are computed over all records
\* of the session, whatever top_n is, and sum to the number of records.
C15_TopNSummary ==
    SummaryServed =>
        LET recs == SelectSeq(records, LAMBDA r : r.session_id = response.session_id)
            k == IF response.asked < Len(recs) THEN response.asked ELSE Len(recs)
            items == response.summary
        IN  /\ Len(items) = k
            /\ response.top_n = k
            /\ \A i \in 1..k : items[i].rank = i
            /\ \A i, j \in 1..k : i < j => items[i].risk_score >= items[j].risk_score
            /\ \E q \in [1..k -> 1..Len(recs)] :
                  /\ \A i, j \in 1..k : q[i] = q[j] => i = j
                  /\ \A i \in 1..k :
                        /\ items[i].user_arn = recs[q[i]].user_arn
                        /\ items[i].risk_score = recs[q[i]].risk_score
                        /\ items[i].risk_level = recs[q[i]].risk_level
                  /\ \A m \in 1..Len(recs) :
                        (\A i \in 1..k : q[i] # m) =>
                            \A i \in 1..k : recs[m].risk_score <= items[i].risk_score
            /\ response.critical_count = CountAtLevel(response.session_id, "CRITICAL")
            /\ response.high_count = CountAtLevel(response.session_id, "HIGH")
            /\ response.medium_count = CountAtLevel(response.session_id, "MEDIUM")
            /\ response.low_count = CountAtLevel(response.session_id, "LOW")
            /\ response.critical_count + response.high_count
                  + response.medium_count + response.low_count = Len(recs)

\* C15 witness: a summary of one record asked of a session with two records
\* at different levels; the returned record is the one stored second, which
\* scores higher, and the counts cover both records.
C15_Witness ==
    /\ SummaryServed
    /\ response.asked = 1
    /\ Len(RecordsOf(response.session_id)) = 2
    /\ Len(response.summary) = 1
    /\ response.summary[1].user_arn = Accounts[2]
    /\ response.summary[1].risk_score > RecordsOf(response.session_id)[1].risk_score
    /\ response.medium_count = 1
    /\ response.low_count = 1

\* C18 as stated: a POST /detect with ml_enabled = false on an uploaded
\* session completes, no account in its result has detection_method 'ml' or
\* 'both', and no score_breakdown has an ML_ANOMALY entry.
C18_MlDisabledHonoured ==
    [][\A session_id \in RequestIds :
          (/\ session_id \in DOMAIN session_store
           /\ session_id \in DOMAIN sessions
           /\ detect(session_id, FALSE))
          => /\ response'.code = 200
             /\ \A i \in 1..Len(response'.results) :
                   /\ response'.results[i].detection_method \notin {"ml", "both"}
                   /\ "ML_ANOMALY" \notin DictKeys(response'.results[i].score_breakdown)]_vars

\* the session is absent from the session store or from the sessions table
Absent(session_id) ==
    session_id \notin DOMAIN session_store \/ session_id \notin DOMAIN sessions

\* C19: a POST /detect whose session_id is absent from the session store or
\* from the sessions table fails with 404 and leaves the session store, every
\* session's status and the detection records unchanged.
C19_UnknownSessionRejected ==
    [][(response'.op = "detect" /\ Absent(response'.session_id))
          => /\ response'.code = 404
             /\ UNCHANGED <<session_store, sessions, records>>]_vars

\* C19 witness: after a restart the session of earlier records is still in
\* the table but no longer in the store, which holds a later upload; detect
\* on it was answered 404.
C19_Witness ==
    /\ response.op = "detect"
    /\ response.code = 404
    /\ response.session_id \in DOMAIN sessions
    /\ response.session_id \notin DOMAIN session_store
    /\ session_store # <<>>
    /\ RecordsOf(response.session_id) # <<>>

\* a POST /detect on the session has committed: its rows are in the table
Committed(session_id) == \E i \in 1..Len(records) : records[i].session_id = session_id

Completed(session_id) ==
    session_id \in DOMAIN sessions /\ sessions[session_id].status = "completed"

\* C20: a session starts with status 'pending'; GET /risk-summary on it
\* returns 404 as long as no POST /detect on it has committed; once one has
\* committed the status is 'completed', it never returns to 'pending', and
\* every later GET /risk-summary on it succeeds.
C20_SessionLifecycle ==
    /\ [][\A session_id \in DOMAIN sessions' :
             session_id \notin DOMAIN sessions => sessions'[session_id].status = "pending"]_vars
    /\ [](\A session_id \in DOMAIN sessions :
             /\ sessions[session_id].status \in {"pending", "completed"}
             /\ Committed(session_id) <=> Completed(session_id))
    /\ [](response.op = "risk-summary" =>
             /\ response.code \in {200, 404}
             /\ response.code = 404 <=> ~Committed(response.session_id)
             /\ response.code = 200 <=> Completed(response.session_id))
    /\ [][(response'.op = "detect" /\ response'.code = 200)
             => /\ \E i \in 1..Len(records') : records'[i].session_id = response'.session_id
                /\ sessions'[response'.session_id].status = "completed"]_vars
    /\ [][\A session_id \in DOMAIN sessions :
             Completed(session_id) => (Completed(session_id))']_vars

\* C20 witness: a summary was served for a completed session while another
\* session, uploaded but not detected, is still pending.
C20_Witness ==
    /\ SummaryServed
    /\ Completed(response.session_id)
    /\ \E other \in DOMAIN sessions :
          /\ sessions[other].status = "pending"
          /\ ~Committed(other)

\* C25 as stated: an account whose detection_method is 'none' (no rule
\* triggered and no ML flag) has score 0, level LOW and an empty
\* score_breakdown.
C25_NoneScoresZero ==
    Scored => \A i \in 1..Len(risk_scores) :
        results[i].detection_method = "none" =>
            /\ ~results[i].is_anomaly
            /\ risk_scores[i].score = 0
            /\ risk_scores[i].level = "LOW"
            /\ risk_scores[i].score_breakdown = <<>>

\* C25 amended: such an account has level LOW and a score equal to its
\* consecutive-failure penalty, one point per failure of its longest run
\* (at most 4, a run of 5 triggers a rule); the breakdown holds that penalty
\* as its only entry, and score and breakdown are 0 and empty exactly when
\* the account has no failed event.
C25_NoneScoresPenalty ==
    Scored => \A i \in 1..Len(risk_scores) :
        results[i].detection_method = "none" =>
            LET run == features[i].consecutive_failures
            IN  /\ ~results[i].is_anomaly
                /\ run <= 4
                /\ risk_scores[i].score = run
                /\ risk_scores[i].level = "LOW"
                /\ risk_scores[i].score_breakdown =
                      IF run = 0 THEN <<>>
                      ELSE <<[key |-> "CONSECUTIVE_FAIL_PENALTY", pts |-> run]>>

\* C25 witness: an account with three events, one of them failed, triggers
\* no rule, is not flagged by the ML layer and scores 1 point.
C25_Witness ==
    /\ Scored
    /\ \E i \in 1..Len(risk_scores) :
          /\ results[i].detection_method = "none"
          /\ features[i].total_events = 3
          /\ features[i].failed_event_count = 1
          /\ risk_scores[i].score = 1
          /\ risk_scores[i].level = "LOW"

\* C27: the 'no anomaly detected, keep regular monitoring' recommendation is
\* given only to accounts with is_anomaly false: an account for which a rule
\* triggered or the ML flag is set never receives it.
C27_NoAnomalySentenceOnlyWhenClean ==
    Scored => \A i \in 1..Len(risk_scores) :
        REC_NONE \in Range(risk_scores[i].recommendations) =>
            /\ ~results[i].is_anomaly
            /\ results[i].triggered_rules = <<>>
            /\ ~MlFlagged(results[i])

\* C29: every rule id RuleEngine.evaluate emits has an entry in
\* RULE_BASE_SCORES and in RULE_DESCRIPTIONS: the score breakdown gives the
\* rule its catalog points, never the default of an unknown rule, and the
\* violation shown to the caller carries the catalog description, never the
\* bare rule id.
C29_EmittedRulesInCatalogs ==
    Scored => \A i \in 1..Len(risk_scores) :
        LET shown == UserDetectionResult(results[i], risk_scores[i])
        IN  \A j \in 1..Len(results[i].triggered_rules) :
                LET rule == results[i].triggered_rules[j]
                IN  /\ rule \in DOMAIN RULE_BASE_SCORES
                    /\ rule \in DOMAIN RULE_DESCRIPTIONS
                    /\ DictGet(risk_scores[i].score_breakdown, rule) = RULE_BASE_SCORES[rule]
                    /\ shown.triggered_rules[j].rule_id = rule
                    /\ shown.triggered_rules[j].description = RULE_DESCRIPTIONS[rule]
                    /\ shown.triggered_rules[j].description # rule

\* C29 witness: one account for which all nine rules of the catalog
\* triggered has been scored.
C29_Witness ==
    /\ Scored
    /\ \E i \in 1..Len(risk_scores) :
          /\ Len(results[i].triggered_rules) = 9
          /\ Range(results[i].triggered_rules) = DOMAIN RULE_BASE_SCORES
          /\ risk_scores[i].score = MAX_SCORE

\* C24: after any sequence of upload and detect calls, detect repeated on the
\* same session included, a session holds at most one DetectionRecord per
\* account, so the four level counts of /risk-summary sum to the number of
\* distinct accounts of the uploaded batch and no account appears twice in
\* the summary.
C24_OneRecordPerAccount ==
    /\ \A i, j \in 1..Len(records) :
          (/\ records[i].session_id = records[j].session_id
           /\ records[i].user_arn = records[j].user_arn) => i = j
    /\ SummaryServed =>
          /\ response.critical_count + response.high_count
                + response.medium_count + response.low_count
                   = sessions[response.session_id].unique_users
          /\ \A i, j \in 1..Len(response.summary) :
                response.summary[i].user_arn = response.summary[j].user_arn => i = j

\* the records of a document of an accepted shape: the value under
\* "Records" of an object, or the array itself
RecordsOfDocument(doc) ==
    IF doc.kind = "object" THEN doc.fields["Records"] ELSE doc

AcceptedShape(doc) ==
    \/ doc.kind = "object" /\ "Records" \in DOMAIN doc.fields
    \/ doc.kind = "array"

\* C21: parse_raw_json and parse_file accept exactly a JSON object with a
\* "Records" key or a top-level JSON array and return one parsed event per
\* record in input order; any other JSON document is rejected with
\* ValueError and a missing file with FileNotFoundError, no events being
\* returned.
C21_ParserAcceptsExactly ==
    parsed # NoDocument =>
        IF ~document.exists
        THEN parsed.kind = "raise" /\ parsed.exc = "FileNotFoundError"
        ELSE IF AcceptedShape(document.content)
        THEN /\ parsed.kind = "events"
             /\ LET recs == RecordsOfDocument(document.content)
                IN  recs.kind = "array" =>
                        /\ Len(parsed.events) = Len(recs.items)
                        /\ \A i \in 1..Len(recs.items) :
                              \E now \in Clock :
                                  parse_event(recs.items[i], now)
                                      = [kind |-> "event", event |-> parsed.events[i]]
        ELSE parsed.kind = "raise" /\ parsed.exc = "ValueError"

\* the action names that occur in a histogram
DistinctNames(counts) == {counts[i].key : i \in {j \in 1..Len(counts) : counts[j].pts > 0}}

\* C22: the action-name entropy of an account is 0 when all its events carry
\* the same action name, however many events there are, and 0 when the
\* histogram is empty (total = 0).
C22_EntropyZero ==
    pc = "entropy" =>
        \A i \in 1..Len(event_counts) :
            Cardinality(DistinctNames(event_counts[i])) <= 1 =>
                EntropyIsZero(event_name_entropy[i])

\* C22 witness: the entropy of a histogram in which one action name carries
\* all events of the largest total, next to a name with no event, has been
\* computed and is 0.
C22_Witness ==
    /\ pc = "entropy"
    /\ Len(event_counts) = 1
    /\ Len(event_counts[1]) = 2
    /\ HistogramTotal(event_counts[1]) = MaxHistogramTotal
    /\ Cardinality(DistinctNames(event_counts[1])) = 1
    /\ EntropyIsZero(event_name_entropy[1])

\* C23 as stated: of two histograms with the same total, the one with more
\* distinct action names never has the lower entropy.
C23_MoreNamesNeverLower ==
    pc = "entropy" =>
        \A i, j \in 1..Len(event_counts) :
            (/\ HistogramTotal(event_counts[i]) = HistogramTotal(event_counts[j])
             /\ Cardinality(DistinctNames(event_counts[i]))
                   < Cardinality(DistinctNames(event_counts[j])))
                => EntropyLeq(event_name_entropy[i], event_name_entropy[j])

\* b is a with some events of one action name given a name a does not have
SplitOf(a, b) ==
    /\ Len(b) = Len(a) + 1
    /\ \E i \in 1..Len(a) :
          /\ a[i].pts = b[i].pts + b[Len(b)].pts
          /\ \A j \in 1..Len(a) : j # i => a[j] = b[j]

\* C23 amended: for a fixed total, giving some of the events of one action
\* name a new action name never lowers the entropy; the entropy is 0 exactly
\* when at most one action name occurs.
C23_SplitNeverLowers ==
    pc = "entropy" =>
        /\ \A i, j \in 1..Len(event_counts) :
              SplitOf(event_counts[i], event_counts[j])
                  => /\ EntropyLeq(event_name_entropy[i], event_name_entropy[j])
                     /\ ~EntropyLeq(event_name_entropy[j], event_name_entropy[i])
        /\ \A i \in 1..Len(event_counts) :
              EntropyIsZero(event_name_entropy[i])
                  <=> Cardinality(DistinctNames(event_counts[i])) <= 1

\* C23 witness: the counts 3, 3, 2 and their split 3, 3, 1, 1 have both
\* been given their entropy.
C23_Witness ==
    /\ pc = "entropy"
    /\ Len(event_counts) = 2
    /\ [i \in 1..Len(event_counts[1]) |-> event_counts[1][i].pts] = <<3, 3, 2>>
    /\ [i \in 1..Len(event_counts[2]) |-> event_counts[2][i].pts] = <<3, 3, 1, 1>>
    /\ SplitOf(event_counts[1], event_counts[2])
    /\ ~EntropyLeq(event_name_entropy[2], event_name_entropy[1])

\* the position in the catalog of a rule id of the SaaS rule engine
SaasPosition(rule) ==
    CASE rule = "R01_OFF_HOURS_ACCESS" -> 1 [] rule = "R02_HIGH_RISK_RATIO" -> 2
      [] rule = "R03_HIGH_RISK_NO_MFA" -> 3 [] rule = "R04_MULTIPLE_SOURCE_IPS" -> 4
      [] rule = "R05_HIGH_FAILURE_RATE" -> 5 [] rule = "R06_CONSECUTIVE_FAILURES" -> 6
      [] rule = "R07_EXCESSIVE_ADMIN_ACTIONS" -> 7 [] rule = "R08_MULTI_REGION_ACTIVITY" -> 8
      [] rule = "R09_EVENT_BURST" -> 9

\* the position in RULES of a rule id of the MVP detector
MvpPosition(rule) == CHOOSE k \in 1..Len(MVP_RULES) : MVP_RULES[k].id = rule

\* C28: for the same parsed event batch and the same ML flags, the MVP
\* detector and the SaaS pipeline agree for every account: the same catalog
\* positions R01..R09 trigger and the same risk score and level result, for
\* any input order of the events and any empty source_ip or region values.
C28_MvpAgreesWithSaas ==
    pc = "compared" =>
        /\ Len(mvp_output) = Len(results)
        /\ \A i \in 1..Len(results) :
              \E j \in 1..Len(mvp_output) :
                  /\ mvp_output[j].user_arn = results[i].user_arn
                  /\ {MvpPosition(r) : r \in Range(mvp_output[j].triggered_rules)}
                        = {SaasPosition(r) : r \in Range(results[i].triggered_rules)}
                  /\ mvp_output[j].risk_score = risk_scores[i].score
                  /\ mvp_output[j].risk_level = risk_scores[i].level

\* C26: for every feature summary extract_user_features produces:
\* total_events >= 1 and equals the number of the account's events in the
\* batch; consecutive_failures <= failed_event_count <= total_events, with
\* consecutive_failures >= 1 iff failed_event_count >= 1;
\* mfa_missing_high_risk <= high_risk_event_count <= total_events;
\* off_hours_event_count, admin_action_count, unique_ips and unique_regions
\* are each <= total_events; 1 <= unique_event_names <= total_events.
C26_FeatureBounds ==
    pc \in {"features", "detected", "scored", "compared"} =>
        \A i \in 1..Len(features) :
            LET uf == features[i]
                own == {k \in 1..Len(events) : events[k].user_arn = uf.user_arn}
            IN  /\ uf.total_events >= 1
                /\ uf.total_events = Cardinality(own)
                /\ uf.consecutive_failures <= uf.failed_event_count
                /\ uf.failed_event_count <= uf.total_events
                /\ (uf.consecutive_failures >= 1) <=> (uf.failed_event_count >= 1)
                /\ uf.mfa_missing_high_risk <= uf.high_risk_event_count
                /\ uf.high_risk_event_count <= uf.total_events
                /\ uf.off_hours_event_count <= uf.total_events
                /\ uf.admin_action_count <= uf.total_events
                /\ uf.unique_ips <= uf.total_events
                /\ uf.unique_regions <= uf.total_events
                /\ 1 <= uf.unique_event_names
                /\ uf.unique_event_names <= uf.total_events

\* C26 witness: an account with three events, two failures that are not
\* consecutive in time, one source IP and one region, and an event without
\* source IP and region, has been summarised.
C26_Witness ==
    /\ pc = "features"
    /\ \E i \in 1..Len(features) :
          /\ features[i].total_events = 3
          /\ features[i].failed_event_count = 2
          /\ features[i].consecutive_failures = 1
          /\ features[i].unique_ips = 1
          /\ features[i].unique_regions = 1
          /\ \E k \in 1..Len(events) : events[k].source_ip = ""

====
